---- MODULE Spec2Model ----
(***************************************************************************)
(* GymApp back end (back/google_sheets.py, back/bot.py): the LOG sheet and *)
(* its read cache, the BASELINE and BASELINE_PROPOSALS ledgers, and the    *)
(* handlers that read and write them.  Every handler runs to completion    *)
(* on the single event loop (the gspread calls are blocking), so one       *)
(* handler is one action.                                                  *)
(*                                                                         *)
(* Units: weights are tenths of a kilogram, clock values are seconds,      *)
(* dates are day numbers.                                                  *)
(***************************************************************************)
EXTENDS Integers, Sequences, FiniteSets, TLC

----------------------------------------------------------------------------
(* Bounds of the model *)

\* most steps of a behaviour of Spec (every handler, clock steps included)
MaxRequests == 3
\* most steps of a behaviour of SpecLedger (confirmations and analytics)
MaxLedgerSteps == 3
\* most steps of a behaviour of SpecLog (LOG writes, reads and clock steps)
MaxLogSteps == 4

----------------------------------------------------------------------------
(* Cell values.  A value is a Python number ("num", as decoded from JSON), *)
(* a string holding a numeral ("str", what get_all_values returns for a    *)
(* numeric cell), an empty string ("blank"), a non-numeric string ("bad"), *)
(* a string float() reads as infinity ("inf": 'inf', 'Infinity', '1e999')  *)
(* or None ("none").                                                       *)

Num(v) == [k |-> "num", v |-> v]
Str(v) == [k |-> "str", v |-> v]
Blank == [k |-> "blank", v |-> 0]
Bad == [k |-> "bad", v |-> 0]
NoneV == [k |-> "none", v |-> 0]
Inf == [k |-> "inf", v |-> 0]

\* float('inf'): above every number of the model
Infinity == 1000000000

\* DataParser.to_float: falsy values (None, '', 0) give the default, a
\* numeral gives its value, anything else the default
to_float(value, default) ==
    CASE value.k \in {"none", "blank"} -> default
      [] value.k = "num" -> IF value.v = 0 THEN default ELSE value.v
      [] value.k = "str" -> value.v
      [] value.k = "inf" -> Infinity
      [] OTHER -> default

\* DataParser.to_int: int(to_float(value, default)); the reps and order
\* tokens of the model are whole numbers, so int() leaves them as they are
to_int(value, default) == to_float(value, default)

\* int() of an infinite float raises OverflowError, which to_int's except
\* clause (ValueError, TypeError) lets through
to_int_raises(value, default) == to_float(value, default) = Infinity

----------------------------------------------------------------------------
(* Dates.  A date cell is the text 'YYYY.MM.DD, HH:MM' of a day ("text"),  *)
(* a numeral ("serial": the sheet's day count from 1899-12-30), an empty   *)
(* cell ("empty") or a text no format matches ("garbage").  Day 1 of the   *)
(* model is 2026-01-01, whose serial is 46023.                             *)

NoDate == -1

\* the serial of day 0: days from datetime(1899, 12, 30) to 2025-12-31
SerialEpoch == 46022

DateText(d) == [k |-> "text", day |-> d]
DateSerial(n) == [k |-> "serial", day |-> n]
DateEmpty == [k |-> "empty", day |-> NoDate]
DateGarbage == [k |-> "garbage", day |-> NoDate]

\* the parse taking every numeral for a day serial
_parse_date_any_serial(raw) ==
    CASE raw.k = "empty" -> [date |-> NoDate, date_str |-> DateEmpty]
      [] raw.k = "serial" ->
            [date |-> raw.day - SerialEpoch,
             date_str |-> DateText(raw.day - SerialEpoch)]
      [] raw.k = "text" -> [date |-> raw.day, date_str |-> DateText(raw.day)]
      [] OTHER -> [date |-> NoDate, date_str |-> raw]

\* _parse_date_flexible: (date object or None, normalised date string); a
\* numeral strictly between 1000 and 100000 is a day serial, any other one
\* goes on to the textual formats, which it does not match
_parse_date_flexible(raw) ==
    CASE raw.k = "empty" -> [date |-> NoDate, date_str |-> DateEmpty]
      [] raw.k = "serial" /\ 1000 < raw.day /\ raw.day < 100000 ->
            [date |-> raw.day - SerialEpoch,
             date_str |-> DateText(raw.day - SerialEpoch)]
      [] raw.k = "text" -> [date |-> raw.day, date_str |-> DateText(raw.day)]
      [] OTHER -> [date |-> NoDate, date_str |-> raw]

----------------------------------------------------------------------------
(* Time *)

SecondsPerDay == 86400
TickSeconds == 150
_log_cache_ttl == 300
\* first day of the model's wall clock
StartDay == 10
\* days the clock may advance one at a time after the long step
MaxRegularDays == 2
\* most steps of a behaviour of SpecReturn (saves, clock steps, analytics)
MaxReturnSteps == 5

----------------------------------------------------------------------------
(* Exercise reference data (EXERCISES sheet), as get_all_exercises returns *)
(* it, sorted by name.                                                     *)

ExerciseIds == <<"e1", "e2">>

ExerciseInfo(id) ==
    CASE id = "e1" -> [name |-> "Bench", equipmentType |-> "barbell",
                       exerciseType |-> "compound"]
      [] id = "e2" -> [name |-> "Curl", equipmentType |-> "dumbbell",
                       exerciseType |-> "isolation"]

\* get_all_exercises: the reference rows, or none when the read fails
get_all_exercises(fails) == IF fails THEN <<>> ELSE ExerciseIds

\* exercises_map.get(ex_id, {}).get(key, default)
ExField(exs, id, key, default) ==
    IF \E i \in 1..Len(exs) : exs[i] = id THEN ExerciseInfo(id)[key] ELSE default

----------------------------------------------------------------------------
(* Sequences and sets.  The({e : v \in {x}}) is e with the value of x      *)
(* named v.                                                                *)

The(S) == CHOOSE x \in S : TRUE

Max2(a, b) == IF a >= b THEN a ELSE b
Min2(a, b) == IF a <= b THEN a ELSE b

SetMax(S) == CHOOSE x \in S : \A y \in S : y <= x
SetMin(S) == CHOOSE x \in S : \A y \in S : x <= y

\* sorted(S) and sorted(S, reverse=True) of a set of numbers
Ascending(S) ==
    The({ [k \in 1..Cardinality(T) |->
              CHOOSE x \in T : Cardinality({y \in T : y < x}) = k - 1] :
          T \in {S} })

Descending(S) ==
    The({ [k \in 1..Cardinality(T) |->
              CHOOSE x \in T : Cardinality({y \in T : y > x}) = k - 1] :
          T \in {S} })

\* the elements of seq at the indices of S, in their order in seq
SubSeqAt(seq, S) ==
    The({ [k \in 1..Len(idx) |-> s[idx[k]]] : s \in {seq}, idx \in {Ascending(S)} })

\* seq without its repeated elements, first appearances kept in order
Distinct(seq) ==
    The({ SubSeqAt(s, {i \in 1..Len(s) : \A j \in 1..(i - 1) : s[j] # s[i]}) :
          s \in {seq} })

\* the indices of keys by ascending key, equal keys in their order of
\* appearance (Python's sort is stable)
SortedIdx(keys) ==
    The({ [k \in 1..Len(ks) |->
              CHOOSE i \in 1..Len(ks) :
                  Cardinality({j \in 1..Len(ks) :
                                  \/ ks[j] < ks[i]
                                  \/ ks[j] = ks[i] /\ j < i}) = k - 1] :
          ks \in {keys} })

\* sorted(seq) of a sequence of numbers
Sorted(seq) ==
    The({ [k \in 1..Len(idx) |-> s[idx[k]]] : s \in {seq}, idx \in {SortedIdx(seq)} })

\* seq.sort(key=lambda x: x['order'])
SortedByOrder(seq) ==
    The({ [k \in 1..Len(idx) |-> s[idx[k]]] :
          s \in {seq}, idx \in {SortedIdx([i \in 1..Len(seq) |-> seq[i].order])} })

----------------------------------------------------------------------------
(* The LOG sheet.  Row 1 is the header (Date, Exercise_ID, Name,           *)
(* Input_Weight, Total_Weight, Reps, Rest, Set_Group, Note, Order); the    *)
(* model keeps the data rows, so sheet row n is data row n - 1.            *)

LogRow(date, ex_id, name, input_weight, total_weight, reps, rest, set_group, note, order) ==
    [date |-> date, ex_id |-> ex_id, name |-> name,
     input_weight |-> input_weight, total_weight |-> total_weight,
     reps |-> reps, rest |-> rest, set_group |-> set_group, note |-> note,
     order |-> order]

\* a row of the grid nothing was written to
EmptyRow ==
    LogRow(DateEmpty, "", "", Blank, Blank, Blank, Blank, "", "", Blank)

\* len(all_values) of a sheet with these data rows
AllValuesLen(rows) == 1 + Len(rows)

\* update_cell(row_num, col, value) on the LOG sheet: a row below the last
\* one is created with its other cells empty
PadRows(rows, n) ==
    IF Len(rows) >= n THEN rows
    ELSE rows \o [k \in 1..(n - Len(rows)) |-> EmptyRow]

\* a cell write landing one sheet row lower
update_cell_below(rows, row_num, field, value) ==
    LET padded == PadRows(rows, row_num)
    IN  [padded EXCEPT ![row_num] = [@ EXCEPT ![field] = value]]

update_cell(rows, row_num, field, value) ==
    LET padded == PadRows(rows, row_num - 1)
    IN  [padded EXCEPT ![row_num - 1] = [@ EXCEPT ![field] = value]]

\* the first `done` writes of a sequence of <<field, value>> cell writes
RECURSIVE ApplyWrites(_, _, _, _)
ApplyWrites(rows, row_num, writes, done) ==
    IF done = 0 \/ writes = <<>> THEN rows
    ELSE The({ ApplyWrites(written, row_num, Tail(writes), done - 1) :
                 written \in {update_cell(rows, row_num, Head(writes)[1],
                                          Head(writes)[2])} })

\* `fault` is the index of the store call that raises (0: none does); of n
\* calls made in order, this many complete
CallsDone(n, fault) == IF fault = 0 \/ fault > n THEN n ELSE fault - 1
AllCallsDone(n, fault) == fault = 0 \/ fault > n

----------------------------------------------------------------------------
(* State *)

VARIABLES
    log_sheet,              \* data rows of the LOG sheet
    _log_cache,             \* [set, rows]: the cached rows, set = FALSE for None
    _log_cache_timestamp,   \* time.time() of the cached read, NoTime for None
    baseline_sheet,         \* [exists, rows]: BASELINE sheet, data rows
    proposals_sheet,        \* [exists, rows]: BASELINE_PROPOSALS sheet, data rows
    now,                    \* seconds since the first observed instant
    left,                   \* steps the behaviour may still take
    resp,                   \* the last handler's request and response
    cacheOlderThanAck       \* history: a write was acknowledged after the cached read

vars == <<log_sheet, _log_cache, _log_cache_timestamp, baseline_sheet,
          proposals_sheet, now, left, resp, cacheOlderThanAck>>

NoTime == -1
NoCache == [set |-> FALSE, rows |-> <<>>]
today == StartDay + (now \div SecondsPerDay)

----------------------------------------------------------------------------
(* The LOG read cache *)

\* all_values[-max_rows:] under the header: the data rows a read caches
CachedValues(rows, max_rows) ==
    IF AllValuesLen(rows) > max_rows
    THEN SubSeq(rows, Len(rows) - max_rows + 1, Len(rows))
    ELSE rows

\* the cached read that still trusts a cache of exactly the ttl's age
_get_log_values_cached_through_ttl(cache, timestamp, current_time, rows, max_rows, fails) ==
    IF cache.set /\ timestamp # NoTime /\ (current_time - timestamp) <= _log_cache_ttl
    THEN [values |-> cache.rows, has_header |-> TRUE, cache |-> cache,
          timestamp |-> timestamp, source |-> "fresh_cache", reads |-> 0]
    ELSE IF ~fails
    THEN [values |-> CachedValues(rows, max_rows), has_header |-> TRUE,
          cache |-> [set |-> TRUE, rows |-> CachedValues(rows, max_rows)],
          timestamp |-> current_time, source |-> "store", reads |-> 1]
    ELSE IF cache.set
    THEN [values |-> cache.rows, has_header |-> TRUE, cache |-> cache,
          timestamp |-> timestamp, source |-> "stale_cache", reads |-> 1]
    ELSE [values |-> <<>>, has_header |-> FALSE, cache |-> cache,
          timestamp |-> timestamp, source |-> "none", reads |-> 1]

\* _get_log_values_cached: the rows returned, the cache afterwards, where
\* the rows came from and how many times the store was read; `fails` says
\* whether the store read raises
_get_log_values_cached(cache, timestamp, current_time, rows, max_rows, fails) ==
    IF cache.set /\ timestamp # NoTime /\ (current_time - timestamp) < _log_cache_ttl
    THEN [values |-> cache.rows, has_header |-> TRUE, cache |-> cache,
          timestamp |-> timestamp, source |-> "fresh_cache", reads |-> 0]
    ELSE IF ~fails
    THEN [values |-> CachedValues(rows, max_rows), has_header |-> TRUE,
          cache |-> [set |-> TRUE, rows |-> CachedValues(rows, max_rows)],
          timestamp |-> current_time, source |-> "store", reads |-> 1]
    ELSE IF cache.set
    THEN [values |-> cache.rows, has_header |-> TRUE, cache |-> cache,
          timestamp |-> timestamp, source |-> "stale_cache", reads |-> 1]
    ELSE [values |-> <<>>, has_header |-> FALSE, cache |-> cache,
          timestamp |-> timestamp, source |-> "none", reads |-> 1]

\* _invalidate_log_cache
_invalidate_log_cache == [cache |-> NoCache, timestamp |-> NoTime]

----------------------------------------------------------------------------
(* save_workout_set *)

\* the exercise name written when the request carries none: looked up in
\* the EXERCISES sheet, '' when the lookup raises
LookupName(ex_id, lookup_fails) ==
    IF lookup_fails THEN "" ELSE ExField(ExerciseIds, ex_id, "name", "")

\* the row list save_workout_set builds, as the sheet stores it
SaveRow(data, day, lookup_fails) ==
    LogRow(DateText(day),
           data.exercise_id,
           IF data.exercise_name # "" THEN data.exercise_name
           ELSE IF data.exercise_id # "" THEN LookupName(data.exercise_id, lookup_fails)
           ELSE "",
           IF data.input_weight.k \notin {"none", "blank"}
           THEN Str(to_float(data.input_weight, 0)) ELSE Blank,
           Str(to_float(data.weight, 0)),
           Str(to_int(data.reps, 0)),
           Str(to_float(data.rest, 0)),
           data.set_group_id,
           data.note,
           Str(to_int(data.order, 0)))

\* save_workout_set acknowledging the append with the cache left as it was
save_workout_set_keeping_cache(rows, cache, timestamp, data, day, lookup_fails, append_fails) ==
    IF append_fails
    THEN [rows |-> rows, cache |-> cache, timestamp |-> timestamp,
          success |-> FALSE, row_number |-> 0, appends |-> 1]
    ELSE [rows |-> Append(rows, SaveRow(data, day, lookup_fails)),
          cache |-> cache, timestamp |-> timestamp,
          success |-> TRUE, row_number |-> AllValuesLen(rows) + 1, appends |-> 1]

\* save_workout_set: one append_row, then the cache is invalidated and the
\* row number parsed from the updated range; an exception gives success False
save_workout_set(rows, cache, timestamp, data, day, lookup_fails, append_fails) ==
    IF append_fails
    THEN [rows |-> rows, cache |-> cache, timestamp |-> timestamp,
          success |-> FALSE, row_number |-> 0, appends |-> 1]
    ELSE [rows |-> Append(rows, SaveRow(data, day, lookup_fails)),
          cache |-> _invalidate_log_cache.cache,
          timestamp |-> _invalidate_log_cache.timestamp,
          success |-> TRUE, row_number |-> AllValuesLen(rows) + 1, appends |-> 1]

----------------------------------------------------------------------------
(* update_workout_set *)

\* _update_workout_set_by_search reads the sheet at most this many times
max_retries == 3

\* the cell writes of the row_number branch, in the order they are made
DirectWrites(data) ==
    <<  <<"total_weight", Str(to_float(data.weight, 0))>>,
        <<"reps", Str(to_int(data.reps, 0))>>,
        <<"rest", Str(to_float(data.rest, 0))>> >>
    \o (IF "input_weight" \in data.keys /\ data.input_weight.k # "none"
        THEN << <<"input_weight", Str(to_float(data.input_weight, 0))>> >> ELSE <<>>)
    \o (IF "note" \in data.keys THEN << <<"note", data.note>> >> ELSE <<>>)
    \o (IF "order" \in data.keys
        THEN << <<"order", Str(to_int(data.order, 0))>> >> ELSE <<>>)

\* the cell writes of the search branch
SearchWrites(data) ==
    (IF "input_weight" \in data.keys /\ data.input_weight.k # "none"
     THEN << <<"input_weight", Str(to_float(data.input_weight, 0))>> >> ELSE <<>>)
    \o <<  <<"total_weight", Str(to_float(data.weight, 0))>>,
           <<"reps", Str(to_int(data.reps, 0))>>,
           <<"rest", Str(to_float(data.rest, 0))>> >>

\* the sheet row of the last data row matching the request, 0 when none
FindLastRow(rows, data) ==
    LET hits == {i \in 1..Len(rows) :
                    /\ rows[i].ex_id = data.exercise_id
                    /\ rows[i].set_group = data.set_group_id
                    /\ to_int(rows[i].order, -1) = to_int(data.order, -1)}
    IN  IF hits = {} THEN 0 ELSE SetMax(hits) + 1

\* the sheet row of the first data row matching the request, 0 when none
FindRow(rows, data) ==
    LET hits == {i \in 1..Len(rows) :
                    /\ rows[i].ex_id = data.exercise_id
                    /\ rows[i].set_group = data.set_group_id
                    /\ to_int(rows[i].order, -1) = to_int(data.order, -1)}
    IN  IF hits = {} THEN 0 ELSE SetMin(hits) + 1

\* attempts attempt..max_retries of the search loop; faults[a] is the store
\* call of attempt a that raises (1: the read, 2..: a cell write, 0: none)
RECURSIVE SearchAttempts(_, _, _, _, _)
SearchAttempts(rows, data, attempt, faults, reads) ==
    IF attempt > max_retries
    THEN [rows |-> rows, ok |-> FALSE, reads |-> reads, row_num |-> 0]
    ELSE IF faults[attempt] = 1
    THEN SearchAttempts(rows, data, attempt + 1, faults, reads + 1)
    ELSE IF AllValuesLen(rows) < 2 \/ FindRow(rows, data) = 0
    THEN SearchAttempts(rows, data, attempt + 1, faults, reads + 1)
    ELSE LET writes == SearchWrites(data)
             fault == IF faults[attempt] = 0 THEN 0 ELSE faults[attempt] - 1
             row_num == FindRow(rows, data)
             after == ApplyWrites(rows, row_num, writes, CallsDone(Len(writes), fault))
         IN  IF AllCallsDone(Len(writes), fault)
             THEN [rows |-> after, ok |-> TRUE, reads |-> reads + 1, row_num |-> row_num]
             ELSE SearchAttempts(after, data, attempt + 1, faults, reads + 1)

\* _update_workout_set_by_search
_update_workout_set_by_search(rows, data, faults) ==
    IF data.set_group_id = "" \/ data.exercise_id = "" \/ to_int(data.order, -1) < 0
    THEN [rows |-> rows, ok |-> FALSE, reads |-> 0, row_num |-> 0]
    ELSE SearchAttempts(rows, data, 1, faults, 0)

\* update_workout_set: by row number when one above the header is given (one
\* pass over the cell writes), else by search (`attempts` passes of its
\* loop); the cache is invalidated only on the way to returning True
update_workout_set(rows, cache, timestamp, data, faults) ==
    IF data.row_number > 1
    THEN LET writes == DirectWrites(data)
             after == ApplyWrites(rows, data.row_number, writes,
                                  CallsDone(Len(writes), faults[1]))
             ok == AllCallsDone(Len(writes), faults[1])
         IN  [rows |-> after,
              cache |-> IF ok THEN _invalidate_log_cache.cache ELSE cache,
              timestamp |-> IF ok THEN _invalidate_log_cache.timestamp ELSE timestamp,
              success |-> ok, attempts |-> 1]
    ELSE The({ [rows |-> r.rows,
                cache |-> IF r.ok THEN _invalidate_log_cache.cache ELSE cache,
                timestamp |-> IF r.ok THEN _invalidate_log_cache.timestamp
                              ELSE timestamp,
                success |-> r.ok, attempts |-> r.reads] :
               r \in {_update_workout_set_by_search(rows, data, faults)} })

----------------------------------------------------------------------------
(* History views *)

\* _get_weight_from_row: Total_Weight when positive, else Weight
_get_weight_from_row(row, weight_field, total_weight_field) ==
    LET tw == to_float(row[total_weight_field], 0)
        w == to_float(row[weight_field], 0)
    IN  IF tw > 0 THEN tw ELSE w

\* str(row[date_idx]).split(',')[0].strip(): the date cell without the time
DateVal(cell) == IF cell.k = "text" THEN DateText(cell.day) ELSE cell

\* one set of the history of an exercise
HistoryItem(row) ==
    [date |-> DateVal(row.date),
     weight |-> _get_weight_from_row(row, "total_weight", "total_weight"),
     reps |-> to_int(row.reps, 0),
     rest |-> to_float(row.rest, 0),
     order |-> to_int(row.order, 0),
     setGroupId |-> row.set_group]

\* get_exercise_history over the rows the cached read returned: the sets of
\* the exercise grouped by date, each group sorted by order.  The groups are
\* kept as a set: the logs of the model hold fewer dates than the limit of
\* 50, and no date order is needed below.
get_exercise_history(read, exercise_id) ==
    IF ~read.has_header \/ AllValuesLen(read.values) < 2 THEN {}
    ELSE LET values == read.values
             mine == SubSeqAt(values, {i \in 1..Len(values) :
                                          values[i].ex_id = exercise_id})
             OnDate(items, d) ==
                 SortedByOrder(SubSeqAt(items, {i \in 1..Len(items) :
                                                   items[i].date = d}))
         IN  UNION { {[date |-> d, sets |-> OnDate(items, d)] :
                         d \in {items[i].date : i \in 1..Len(items)}} :
                     items \in {[k \in 1..Len(mine) |-> HistoryItem(mine[k])]} }

\* one set of the global history, before grouping
GlobalItem(exs, row) ==
    [exerciseName |-> ExField(exs, row.ex_id, "name", "Unknown"),
     weight |-> _get_weight_from_row(row, "total_weight", "total_weight"),
     reps |-> to_int(row.reps, 0),
     rest |-> to_float(row.rest, 0),
     order |-> to_int(row.order, 0),
     setGroupId |-> row.set_group]

\* the exercise blocks of one day: sets sorted by order, grouped by
\* (exercise name, set group); a set group is a superset when more than one
\* block of the day carries it
DayBlocks(raw_exercises) ==
    LET KeyOf(ex) == <<ex.exerciseName, ex.setGroupId>>
        SetOf(ex) == [weight |-> ex.weight, reps |-> ex.reps, rest |-> ex.rest]
        Count(keys, sg) == Cardinality({i \in 1..Len(keys) : keys[i][2] = sg})
        SetsOf(sorted, key) ==
            The({ [k \in 1..Len(mine) |-> SetOf(mine[k])] :
                  mine \in {SubSeqAt(sorted, {i \in 1..Len(sorted) :
                                                 KeyOf(sorted[i]) = key})} })
        Block(sorted, keys, key) ==
            [name |-> key[1],
             supersetId |-> IF key[2] # "" /\ Count(keys, key[2]) > 1
                            THEN key[2] ELSE "",
             sets |-> SetsOf(sorted, key)]
    IN  The({ The({ [k \in 1..Len(keys) |-> Block(sorted, keys, keys[k])] :
                    keys \in {Distinct([i \in 1..Len(sorted) |-> KeyOf(sorted[i])])} }) :
              sorted \in {SortedByOrder(raw_exercises)} })

\* to_int of the reps or order cell of a dated row raises (an infinite
\* numeral); the except clause of get_global_history catches it
GlobalHistoryRaises(rows) ==
    \E i \in 1..Len(rows) :
        /\ DateVal(rows[i].date).k # "empty"
        /\ to_int_raises(rows[i].reps, 0) \/ to_int_raises(rows[i].order, 0)

\* get_global_history: reads the sheet itself (no cache); [] when the read
\* or a row raises or the sheet has no data row; rows with an empty date
\* are skipped
get_global_history(rows, log_fails, exercises_fail) ==
    IF log_fails \/ AllValuesLen(rows) < 2 \/ GlobalHistoryRaises(rows) THEN {}
    ELSE LET exs == get_all_exercises(exercises_fail)
             RawOf(kept, d) ==
                 The({ [k \in 1..Len(on) |-> GlobalItem(exs, on[k])] :
                       on \in {SubSeqAt(kept, {i \in 1..Len(kept) :
                                                  DateVal(kept[i].date) = d})} })
         IN  UNION { {[date |-> d, exercises |-> DayBlocks(RawOf(kept, d))] :
                         d \in {DateVal(kept[i].date) : i \in 1..Len(kept)}} :
                     kept \in {SubSeqAt(rows, {i \in 1..Len(rows) :
                                                 DateVal(rows[i].date).k # "empty"})} }

----------------------------------------------------------------------------
(* The BASELINE and BASELINE_PROPOSALS ledgers *)

BaselineRow(exercise_id, baseline_weight, last_updated, peak_90d, status) ==
    [exercise_id |-> exercise_id, baseline_weight |-> baseline_weight,
     last_updated |-> last_updated, peak_90d |-> peak_90d, status |-> status]

ProposalRow(exercise_id, old_baseline, new_baseline, step, expires_at, status, proposal_id) ==
    [exercise_id |-> exercise_id, old_baseline |-> old_baseline,
     new_baseline |-> new_baseline, step |-> step, expires_at |-> expires_at,
     status |-> status, proposal_id |-> proposal_id]

\* _get_baseline_sheet / _get_baseline_proposals_sheet: a missing sheet is
\* created with its header row and no data row
EnsureSheet(sheet) == [exists |-> TRUE, rows |-> sheet.rows]

NoBaseline == -1

\* the data rows of the BASELINE sheet that carry the exercise
StoredIdx(rows, ex_id) == {i \in 1..Len(rows) : rows[i].exercise_id = ex_id}

\* _get_baselines_map()[ex_id]: the last row of the exercise ({} when the
\* read raises or the exercise has no row)
HasStored(bl_rows, bl_fails, ex_id) ==
    ~bl_fails /\ StoredIdx(bl_rows, ex_id) # {}

StoredRow(bl_rows, ex_id) == bl_rows[SetMax(StoredIdx(bl_rows, ex_id))]

\* _get_pending_proposals: the PENDING rows, [] when the read raises
_get_pending_proposals(rows, fails) ==
    LET View(row) == [exerciseId |-> row.exercise_id,
                      oldBaseline |-> to_float(row.old_baseline, 0),
                      newBaseline |-> to_float(row.new_baseline, 0),
                      step |-> to_float(row.step, 0),
                      expiresAt |-> row.expires_at,
                      proposalId |-> row.proposal_id]
    IN  IF fails THEN <<>>
        ELSE The({ [k \in 1..Len(pending) |-> View(pending[k])] :
                   pending \in {SubSeqAt(rows, {i \in 1..Len(rows) :
                                                   rows[i].status = "PENDING"})} })

----------------------------------------------------------------------------
(* Baseline estimator *)

\* Python's round(num / den) for num >= 0, den > 0: halves go to the even
RoundHalfEven(num, den) ==
    LET q == num \div den
        r == num % den
    IN  IF 2 * r < den THEN q
        ELSE IF 2 * r > den THEN q + 1
        ELSE IF q % 2 = 0 THEN q ELSE q + 1

\* twice the upper of the two middle values of a sorted, non-empty sequence
TwiceUpperMedian(sorted) == 2 * sorted[Len(sorted) \div 2 + 1]

\* twice statistics.median of a sorted, non-empty sequence
TwiceMedian(sorted) ==
    LET n == Len(sorted)
    IN  IF n % 2 = 1 THEN 2 * sorted[(n + 1) \div 2]
        ELSE sorted[n \div 2] + sorted[n \div 2 + 1]

\* the per-day candidates with every set taken for one in the band
CandidatesAnyReps(ex_sets, reps_min, reps_max) ==
    LET ok == {i \in 1..Len(ex_sets) : ex_sets[i].date # NoDate}
        days == {ex_sets[i].date : i \in ok}
        Best(d) == SetMax({ex_sets[i].weight : i \in {j \in ok : ex_sets[j].date = d}})
    IN  The({ [k \in 1..Min2(8, Len(by_day)) |-> Best(by_day[k])] :
              by_day \in {Descending(days)} })

\* the per-day candidates: the heaviest set with reps in the band of each of
\* the 8 latest days that have such a set, latest day first
Candidates(ex_sets, reps_min, reps_max) ==
    LET ok == {i \in 1..Len(ex_sets) :
                  /\ ex_sets[i].date # NoDate
                  /\ reps_min <= ex_sets[i].reps
                  /\ ex_sets[i].reps <= reps_max}
        days == {ex_sets[i].date : i \in ok}
        Best(d) == SetMax({ex_sets[i].weight : i \in {j \in ok : ex_sets[j].date = d}})
    IN  The({ [k \in 1..Min2(8, Len(by_day)) |-> Best(by_day[k])] :
              by_day \in {Descending(days)} })

\* _calc_baseline_for_exercise: NoBaseline for None
_calc_baseline_for_exercise(ex_id, eq_type, ex_type, all_sets) ==
    LET reps_min == IF ex_type = "compound" THEN 6 ELSE 8
        reps_max == IF ex_type = "compound" THEN 12 ELSE 15
        step == IF eq_type = "barbell" THEN 25 ELSE 10
        Trimmed(sorted, n) ==
            IF n >= 10 THEN SubSeq(sorted, 1, n - Max2(1, n \div 10))
            ELSE SubSeq(sorted, 1, n - 1)
        Estimate(candidates) ==
            IF Len(candidates) < 4 THEN NoBaseline
            ELSE The({ IF trimmed = <<>> THEN NoBaseline
                       ELSE RoundHalfEven(TwiceMedian(trimmed), 2 * step) * step :
                       trimmed \in {Trimmed(Sorted(candidates), Len(candidates))} })
        OfSets(ex_sets) ==
            IF ex_sets = <<>> THEN NoBaseline
            ELSE The({ Estimate(candidates) :
                       candidates \in {Candidates(ex_sets, reps_min, reps_max)} })
    IN  The({ OfSets(ex_sets) :
              ex_sets \in {SubSeqAt(all_sets, {i \in 1..Len(all_sets) :
                                                  all_sets[i].ex_id = ex_id})} })

----------------------------------------------------------------------------
(* get_analytics_v4 *)

\* the rows of the LOG that count as sets: a non-empty date string, a
\* positive weight and positive reps
AnalyticsSet(exs, row) ==
    LET parsed == _parse_date_flexible(row.date)
    IN  [date |-> parsed.date, date_str |-> parsed.date_str,
         ex_id |-> row.ex_id,
         weight |-> _get_weight_from_row(row, "total_weight", "total_weight"),
         reps |-> to_int(row.reps, 0),
         equipment_type |-> ExField(exs, row.ex_id, "equipmentType", "barbell"),
         exercise_type |-> ExField(exs, row.ex_id, "exerciseType", "compound")]

\* a row that counts whatever its reps are
IsUsableRowAnyReps(row) ==
    /\ _parse_date_flexible(row.date).date_str.k # "empty"
    /\ _get_weight_from_row(row, "total_weight", "total_weight") > 0

IsUsableRow(row) ==
    /\ _parse_date_flexible(row.date).date_str.k # "empty"
    /\ _get_weight_from_row(row, "total_weight", "total_weight") > 0
    /\ to_int(row.reps, 0) > 0

AllSets(exs, rows) ==
    The({ [k \in 1..Len(usable) |-> AnalyticsSet(exs, usable[k])] :
          usable \in {SubSeqAt(rows, {i \in 1..Len(rows) : IsUsableRow(rows[i])})} })

\* all_sets is non-empty, whether or not any date of it was parsed
HasUsableSetIgnoringDates(rows) == \E i \in 1..Len(rows) : IsUsableRow(rows[i])

\* all_sets is non-empty and some set of it has a parsed date
HasUsableSet(rows) ==
    \E i \in 1..Len(rows) :
        IsUsableRow(rows[i]) /\ _parse_date_flexible(rows[i].date).date # NoDate

\* max(1, int(period / 7 * 3))
TargetSessions(period) == Max2(1, (period * 3) \div 7)

\* _empty_analytics_v4; fs values are hundredths
_empty_analytics_v4(period) ==
    [mode |-> "Podderzhanie",
     frequencyScore |-> [value |-> 0, status |-> "red", actual |-> 0,
                         target |-> TargetSessions(period)],
     maxGap |-> [value |-> 0, status |-> "ok"],
     returnToBaseline |-> FALSE,
     stabilityGate |-> FALSE,
     baselines |-> <<>>,
     proposals |-> <<>>,
     period |-> period]

\* the mode with the frequency score looked at before the gap
ModeOfFrequencyFirst(max_gap, fs_value) ==
    IF fs_value < 60 THEN "Podderzhanie"
    ELSE IF max_gap > 7 THEN "Vkat"
    ELSE "Stabilny"

\* the mode: 'Vkat' (return), 'Podderzhanie' (maintenance), 'Stabilny'
\* (stable); fs_value in hundredths
ModeOf(max_gap, fs_value) ==
    IF max_gap > 7 THEN "Vkat"
    ELSE IF fs_value < 60 THEN "Podderzhanie"
    ELSE "Stabilny"

\* the distance from the first date to the last
MaxGapOfSpan(dates) ==
    IF Cardinality(dates) < 2 THEN 0 ELSE SetMax(dates) - SetMin(dates)

\* the distance between the two latest dates
MaxGapOfLatest(dates) ==
    IF Cardinality(dates) < 2 THEN 0
    ELSE The({ sorted[1] - sorted[2] : sorted \in {Descending(dates)} })

\* the largest distance between neighbouring dates, 0 below two dates
MaxGapOf(dates) ==
    IF Cardinality(dates) < 2 THEN 0
    ELSE The({ SetMax({sorted[i] - sorted[i + 1] : i \in 1..(Len(sorted) - 1)}) :
               sorted \in {Descending(dates)} })

\* one entry of the response's baselines list
BaselineEntry(ex_id, all_sets, bl_rows, bl_fails) ==
    LET info == ExerciseInfo(ex_id)
        stored == HasStored(bl_rows, bl_fails, ex_id)
        Entry(bl, has_bl) ==
            [exerciseId |-> ex_id,
             name |-> info.name,
             baseline |-> IF has_bl THEN bl
                          ELSE IF stored
                          THEN to_float(StoredRow(bl_rows, ex_id).baseline_weight, 0)
                          ELSE NoBaseline,
             status |-> IF stored THEN StoredRow(bl_rows, ex_id).status
                        ELSE IF has_bl THEN "ready" ELSE "locked"]
    IN  The({ Entry(bl, bl # NoBaseline /\ bl # 0) :
              bl \in {_calc_baseline_for_exercise(ex_id, info.equipmentType,
                                                  info.exerciseType, all_sets)} })

\* the body of get_analytics_v4 once the LOG was read and holds a data row
ComputeAnalytics(rows, period, day, exs, bl_rows, bl_fails, prop_rows, prop_fails) ==
    LET target_sessions == TargetSessions(period)
        Dated(all_sets) == {i \in 1..Len(all_sets) : all_sets[i].date # NoDate}
        SessionDates(all_sets) ==
            {all_sets[i].date_str :
                i \in {j \in Dated(all_sets) : all_sets[j].date > day - period}}
        Response(all_sets, actual_sessions, fs_value, max_gap) ==
            [mode |-> ModeOf(max_gap, fs_value),
             frequencyScore |->
                 [value |-> fs_value,
                  status |-> IF fs_value >= 80 THEN "green"
                             ELSE IF fs_value >= 60 THEN "yellow" ELSE "red",
                  actual |-> actual_sessions,
                  target |-> target_sessions],
             maxGap |-> [value |-> max_gap,
                         status |-> IF max_gap <= 4 THEN "ok"
                                    ELSE IF max_gap <= 7 THEN "warning" ELSE "vkat"],
             returnToBaseline |-> max_gap > 7 /\ ~bl_fails /\ bl_rows # <<>>,
             stabilityGate |-> fs_value >= 60 /\ max_gap <= 45,
             baselines |-> [k \in 1..Len(exs) |->
                               BaselineEntry(exs[k], all_sets, bl_rows, bl_fails)],
             proposals |-> _get_pending_proposals(prop_rows, prop_fails),
             period |-> period]
    IN  IF ~HasUsableSet(rows) THEN _empty_analytics_v4(period)
        ELSE The({ The({ Response(all_sets, actual_sessions,
                                  RoundHalfEven(100 * actual_sessions, target_sessions),
                                  max_gap) :
                         actual_sessions \in {Cardinality(SessionDates(all_sets))},
                         max_gap \in {MaxGapOf({all_sets[i].date :
                                                   i \in Dated(all_sets)})} }) :
                   all_sets \in {AllSets(exs, rows)} })

\* the row loop of get_analytics_v4 raises: the reps of a row with a date
\* string are converted before the row is judged
RowLoopRaises(rows) ==
    \E i \in 1..Len(rows) :
        /\ _parse_date_flexible(rows[i].date).date_str.k # "empty"
        /\ to_int_raises(rows[i].reps, 0)

\* get_analytics_v4: the response, and the ledgers' sheets afterwards (a
\* missing ledger sheet is created when it is first read).  `faults` is the
\* set of sheets whose read raises; an exception of the log read or of the
\* row loop is caught and answered with the empty response.
get_analytics_v4(rows, period, day, bl_sheet, prop_sheet, faults) ==
    IF "log" \in faults \/ AllValuesLen(rows) < 2
    THEN [response |-> _empty_analytics_v4(period), raised |-> "log" \in faults,
          bl_sheet |-> bl_sheet, prop_sheet |-> prop_sheet]
    ELSE IF RowLoopRaises(rows)
    THEN [response |-> _empty_analytics_v4(period), raised |-> TRUE,
          bl_sheet |-> bl_sheet, prop_sheet |-> prop_sheet]
    ELSE LET exs == get_all_exercises("exercises" \in faults)
             early == ~HasUsableSet(rows)
         IN  [response |-> ComputeAnalytics(rows, period, day, exs, bl_sheet.rows,
                                            "baseline" \in faults, prop_sheet.rows,
                                            "proposals" \in faults),
              raised |-> FALSE,
              bl_sheet |-> IF early \/ "baseline" \in faults THEN bl_sheet
                           ELSE EnsureSheet(bl_sheet),
              prop_sheet |-> IF early \/ "proposals" \in faults THEN prop_sheet
                             ELSE EnsureSheet(prop_sheet)]

----------------------------------------------------------------------------
(* confirm_baseline_proposal *)

\* the search falling back to the first proposal row when no id matches
FindProposalOrFirst(rows, proposal_id) ==
    LET hits == {i \in 1..Len(rows) : rows[i].proposal_id = proposal_id}
    IN  IF rows = <<>> THEN 0
        ELSE IF hits = {} THEN 2 ELSE SetMin(hits) + 1

\* the sheet row of the first proposal row with this id, 0 when none
FindProposal(rows, proposal_id) ==
    LET hits == {i \in 1..Len(rows) : rows[i].proposal_id = proposal_id}
    IN  IF hits = {} THEN 0 ELSE SetMin(hits) + 1

\* the CONFIRM branch appending a row without looking for the exercise's row
WriteBaselineAppend(bl_sheet, ex_id, new_baseline, day, done) ==
    IF done = 0 THEN bl_sheet
    ELSE [exists |-> TRUE,
          rows |-> IF done = 1 THEN bl_sheet.rows
                   ELSE Append(bl_sheet.rows,
                               BaselineRow(ex_id, new_baseline, day, Blank, "updated"))]

\* the BASELINE sheet after the CONFIRM branch wrote the new baseline,
\* `done` of its store calls completing: the read of the sheet, then three
\* cell writes on the first row of the exercise, or one append_row
WriteBaseline(bl_sheet, ex_id, new_baseline, day, done) ==
    LET idx == StoredIdx(bl_sheet.rows, ex_id)
        j == SetMin(idx)
        rows == bl_sheet.rows
        w1 == [rows EXCEPT ![j].baseline_weight = new_baseline]
        w2 == [w1 EXCEPT ![j].last_updated = day]
        w3 == [w2 EXCEPT ![j].status = "updated"]
    IN  IF done = 0 THEN bl_sheet
        ELSE IF idx # {}
        THEN [exists |-> TRUE,
              rows |-> CASE done = 1 -> rows
                         [] done = 2 -> w1
                         [] done = 3 -> w2
                         [] OTHER -> w3]
        ELSE [exists |-> TRUE,
              rows |-> IF done = 1 THEN rows
                       ELSE Append(rows, BaselineRow(ex_id, new_baseline, day,
                                                     Blank, "updated"))]

\* the store calls the CONFIRM branch makes on the BASELINE sheet
BaselineCalls(bl_sheet, ex_id) ==
    IF StoredIdx(bl_sheet.rows, ex_id) # {} THEN 4 ELSE 2

\* the status written to every proposal row instead of row i alone
MarkStatusAll(rows, i, action) ==
    [k \in 1..Len(rows) |-> [rows[k] EXCEPT !.status = action]]

\* sheet.update_cell(i, 8, action): the status cell of sheet row i
MarkStatus(rows, i, action) == [rows EXCEPT ![i - 1].status = action]

\* the BASELINE sheet written for every action but DECLINE
TouchesBaselineUnlessDeclined(action) == action # "DECLINE"

\* the action that goes on to write the BASELINE sheet
TouchesBaseline(action) == action = "CONFIRM"

\* confirm_baseline_proposal: `fault` is the index of the store call that
\* raises (1: reading the proposals, 2: writing the status cell, 3..: the
\* calls on the BASELINE sheet; 0: none)
confirm_baseline_proposal(prop_sheet, bl_sheet, proposal_id, action, day, fault) ==
    LET i == FindProposal(prop_sheet.rows, proposal_id)
        row == prop_sheet.rows[i - 1]
        marked == [exists |-> TRUE,
                   rows |-> MarkStatus(prop_sheet.rows, i, action)]
        calls == 2 + (IF TouchesBaseline(action)
                      THEN BaselineCalls(bl_sheet, row.exercise_id) ELSE 0)
    IN  IF fault = 1
        THEN [prop_sheet |-> prop_sheet, bl_sheet |-> bl_sheet,
              success |-> FALSE, error |-> "exception"]
        ELSE IF prop_sheet.rows = <<>>
        THEN [prop_sheet |-> EnsureSheet(prop_sheet), bl_sheet |-> bl_sheet,
              success |-> FALSE, error |-> "No proposals"]
        ELSE IF i = 0
        THEN [prop_sheet |-> prop_sheet, bl_sheet |-> bl_sheet,
              success |-> FALSE, error |-> "Proposal not found"]
        ELSE IF fault = 2
        THEN [prop_sheet |-> prop_sheet, bl_sheet |-> bl_sheet,
              success |-> FALSE, error |-> "exception"]
        ELSE [prop_sheet |-> marked,
              bl_sheet |-> IF TouchesBaseline(action)
                           THEN WriteBaseline(bl_sheet, row.exercise_id,
                                              row.new_baseline, day,
                                              CallsDone(calls, fault) - 2)
                           ELSE bl_sheet,
              success |-> AllCallsDone(calls, fault),
              error |-> IF AllCallsDone(calls, fault) THEN "" ELSE "exception"]

\* api_confirm_baseline accepts these actions only
Actions == {"CONFIRM", "SNOOZE", "DECLINE"}

----------------------------------------------------------------------------
(* Requests of the model *)

\* days one jump of the wall clock skips
DayStep == 9

\* a training history: e1 on four days, 120 kg x 8
HistoryRow(day, order) ==
    LogRow(DateText(day), "e1", "Bench", Str(500), Str(1200), Str(8), Str(90),
           "g1", "", Str(order))

History == <<HistoryRow(2, 1), HistoryRow(4, 1), HistoryRow(6, 1), HistoryRow(8, 1)>>

\* a log whose only row has a date no format matches and a rest that is no
\* number
Undated ==
    <<LogRow(DateGarbage, "e1", "Bench", Str(500), Str(1200), Str(8), Bad,
             "g1", "", Str(1))>>

P1 == ProposalRow("e1", Str(1000), Str(1100), Str(25), "", "PENDING", "p1")
P2 == ProposalRow("e2", Blank, Str(200), Str(10), "", "PENDING", "p2")
P3 == ProposalRow("e1", Str(1000), Str(1050), Str(25), "", "PENDING", "p3")

\* the ledgers at start: no sheets yet; a stored baseline for e1 with two
\* proposals waiting; an empty BASELINE sheet with two proposals for e1
NoLedgers ==
    [bl |-> [exists |-> FALSE, rows |-> <<>>],
     pr |-> [exists |-> FALSE, rows |-> <<>>]]

StoredLedgers ==
    [bl |-> [exists |-> TRUE,
             rows |-> <<BaselineRow("e1", Str(1000), 1, Blank, "holding")>>],
     pr |-> [exists |-> TRUE, rows |-> <<P1, P2>>]]

FreshLedgers ==
    [bl |-> [exists |-> TRUE, rows |-> <<>>],
     pr |-> [exists |-> TRUE, rows |-> <<P1, P3>>]]

\* the ids requests name: those of the ledger, and one no row carries
ProposalIds(rows) == {rows[i].proposal_id : i \in 1..Len(rows)} \cup {"p9"}

SaveRequest(exercise_id, exercise_name, input_weight, weight, reps, order) ==
    [exercise_id |-> exercise_id, exercise_name |-> exercise_name,
     input_weight |-> input_weight, weight |-> weight, reps |-> reps,
     rest |-> Num(90), set_group_id |-> "g1", note |-> "", order |-> order]

\* a set that counts, and one logged without a name and with no load
SaveData ==
    { SaveRequest("e1", "Bench", Num(500), Num(1200), Num(8), Num(2)),
      SaveRequest("e1", "", NoneV, Num(0), Num(8), Num(2)) }

UpdateRequest(row_number, exercise_id, order, keys) ==
    [row_number |-> row_number, exercise_id |-> exercise_id,
     set_group_id |-> "g1", order |-> order, keys |-> keys,
     weight |-> Num(1300), reps |-> Num(10), rest |-> Num(60),
     input_weight |-> Num(550), note |-> "easy"]

\* update requests with, per attempt, the store call that raises: by row
\* number (row 2, whole or failing at the second write; the row below the
\* last one; with the optional keys), and by search (found, with the read
\* or a write failing; all reads failing; order 0; row number 1 and no
\* exercise id)
UpdateCases(rows) ==
    { <<UpdateRequest(2, "e1", Num(1), {}), <<0, 0, 0>> >>,
      <<UpdateRequest(2, "e1", Num(1), {}), <<2, 0, 0>> >>,
      <<UpdateRequest(AllValuesLen(rows) + 1, "e1", Num(1), {}), <<0, 0, 0>> >>,
      <<UpdateRequest(2, "e1", Num(5), {"input_weight", "note", "order"}), <<0, 0, 0>> >>,
      <<UpdateRequest(0, "e1", Num(1), {"input_weight"}), <<0, 0, 0>> >>,
      <<UpdateRequest(0, "e1", Num(1), {}), <<1, 0, 0>> >>,
      <<UpdateRequest(0, "e1", Num(1), {}), <<3, 0, 0>> >>,
      <<UpdateRequest(0, "e1", Num(1), {}), <<1, 1, 1>> >>,
      <<UpdateRequest(0, "e1", Num(0), {}), <<0, 0, 0>> >>,
      <<UpdateRequest(1, "", Num(1), {}), <<0, 0, 0>> >> }

Periods == {7, 14}

\* periods of the query string: int(request.query.get('period', 14)) takes
\* every integer
QueryPeriods == {7, 10, 14}

\* the day of the analytics requests over the logs below
MetricsDay == 22

\* one set of e1 or e2, 8 reps at 120 kg unless said otherwise
MetricRow(date, ex_id, total_weight, reps) ==
    LogRow(date, ex_id, ExerciseInfo(ex_id).name, Str(500), total_weight, reps,
           Str(90), "g1", "", Str(1))

\* rows of a log: sets of 1, 8, 20 and 21 January; sets of 8 January whose
\* date is a serial, and sets with a date cell that is no date (a numeral
\* outside the serial range, an empty cell, a text); sets of 8 January
\* with a load or with reps that do not count or are no number
MetricRows ==
    { MetricRow(DateText(d), "e1", Str(1200), Str(8)) : d \in {1, 8, 20, 21} }
    \cup { MetricRow(c, "e1", Str(1200), Str(8)) :
              c \in {DateSerial(SerialEpoch + 8), DateSerial(500), DateEmpty,
                     DateGarbage} }
    \cup { MetricRow(DateText(8), "e1", w, Str(8)) : w \in {Str(0), Str(-50), Bad} }
    \cup { MetricRow(DateText(8), "e1", Str(1200), r) :
              r \in {Str(0), Str(-3), Bad, Inf} }

\* four days of e1 in its rep band, at 100, 110, 120 and 130 kg: enough for
\* a baseline
Trained ==
    << MetricRow(DateText(13), "e1", Str(1000), Str(8)),
       MetricRow(DateText(15), "e1", Str(1100), Str(8)),
       MetricRow(DateText(17), "e1", Str(1200), Str(8)),
       MetricRow(DateText(19), "e1", Str(1300), Str(8)) >>

\* most rows of a log of SpecMetrics drawn from MetricRows
MaxMetricRows == 3

\* the logs of SpecMetrics: up to MaxMetricRows rows, or the four trained
\* days followed by fewer rows
MetricLogs ==
    UNION { [1..n -> MetricRows] : n \in 0..MaxMetricRows }
    \cup UNION { {Trained \o tail : tail \in [1..n -> MetricRows]} :
                 n \in 0..(MaxMetricRows - 1) }

\* a set of the history view: a date cell, an exercise id, a set group and
\* a reps cell; the exercises outside the reference come after the others
ViewRow(date, ex_id, set_group, reps) ==
    LogRow(date, ex_id, IF ex_id \in {"e1", "e2"} THEN ExerciseInfo(ex_id).name ELSE "",
           Str(500), Str(600), reps, Str(90), set_group, "",
           IF ex_id \in {"e1", "e2"} THEN Str(1) ELSE Str(2))

\* rows of a log: on 1 January sets of two exercises of the reference and
\* of two outside it, alone or in the set group g1; on 2 January a set of
\* g1 and one of an unknown exercise; a set without a date, and a set whose
\* reps cell reads as infinity
ViewRows ==
    { ViewRow(DateText(1), id, sg, Str(8)) :
         id \in {"e1", "e2", "x1", "x2"}, sg \in {"", "g1"} }
    \cup { ViewRow(DateText(2), "e1", "g1", Str(8)),
           ViewRow(DateText(2), "x1", "", Str(8)),
           ViewRow(DateEmpty, "e1", "g1", Str(8)),
           ViewRow(DateText(1), "e1", "g1", Inf) }

\* most rows of a log of SpecHistory
MaxViewRows == 3

\* the logs of SpecHistory
ViewLogs == UNION { [1..n -> ViewRows] : n \in 0..MaxViewRows }

\* the sheets whose read raises during one analytics request
AnalyticsFaults == {{}, {"log"}, {"exercises"}, {"baseline"}, {"proposals"}}

\* the proposal row a confirmation request names, before the request
NoProposal == ProposalRow("", Blank, Blank, Blank, "", "", "")

NamedProposal(rows, proposal_id) ==
    IF FindProposal(rows, proposal_id) = 0 THEN NoProposal
    ELSE rows[FindProposal(rows, proposal_id) - 1]

\* the store calls confirm_baseline_proposal makes for a request
ConfirmCalls(prop_sheet, bl_sheet, proposal_id, action) ==
    IF FindProposal(prop_sheet.rows, proposal_id) = 0 THEN 1
    ELSE 2 + (IF action = "CONFIRM"
              THEN BaselineCalls(bl_sheet,
                                 NamedProposal(prop_sheet.rows, proposal_id).exercise_id)
              ELSE 0)

\* the rep band of an exercise type, bounds included
RepBand(ex_type) == IF ex_type = "compound" THEN 6..12 ELSE 8..15

\* most training days of a log of SpecBaseline
MaxTrainingDays == 10
\* most of those days without a set in the rep band
MaxOffBandDays == 2

\* candidate weights of a lift, 100 to 112.5 kg
ExampleWeights == <<1000, 1000, 1025, 1025, 1050, 1050, 1050, 1075, 1100, 1125>>

\* the load of day d of n: the weights from the oldest day on ("rising") or
\* from the latest day back ("falling")
DayWeight(profile, d, n) ==
    IF profile = "rising" THEN ExampleWeights[((d - 1) % Len(ExampleWeights)) + 1]
    ELSE ExampleWeights[((n - d) % Len(ExampleWeights)) + 1]

\* reps of day d inside the band (either end of it) and just outside it
RepsInBand(ex_id, d) ==
    IF d % 2 = 1 THEN SetMin(RepBand(ExerciseInfo(ex_id).exerciseType))
    ELSE SetMax(RepBand(ExerciseInfo(ex_id).exerciseType))

RepsOffBand(ex_id, d) ==
    IF d % 2 = 1 THEN SetMin(RepBand(ExerciseInfo(ex_id).exerciseType)) - 1
    ELSE SetMax(RepBand(ExerciseInfo(ex_id).exerciseType)) + 1

\* a second set on the latest day: none, a heavier one inside the band, or a
\* heavier one outside it
ExtraSets == {"none", "heavier", "heavier_off_band"}

ExtraRows(ex_id, n, profile, extra) ==
    IF extra = "none" \/ n = 0 THEN <<>>
    ELSE << MetricRow(DateText(n), ex_id,
                      Str(DayWeight(profile, n, n) + 50),
                      Str(IF extra = "heavier_off_band" THEN RepsOffBand(ex_id, n)
                          ELSE RepsInBand(ex_id, n))) >>

\* a training history of one exercise: one set on each of the days 1..n,
\* off the band on the days of `off`, and the second set of the latest day
TrainingLog(ex_id, n, off, profile, extra) ==
    [d \in 1..n |->
        MetricRow(DateText(d), ex_id, Str(DayWeight(profile, d, n)),
                  Str(IF d \in off THEN RepsOffBand(ex_id, d)
                      ELSE RepsInBand(ex_id, d)))]
    \o ExtraRows(ex_id, n, profile, extra)

TrainingLogs ==
    { TrainingLog(ex_id, n, off, profile, extra) :
        ex_id \in {"e1", "e2"},
        n \in 0..MaxTrainingDays,
        off \in {o \in SUBSET (1..MaxTrainingDays) : Cardinality(o) <= MaxOffBandDays},
        profile \in {"rising", "falling"},
        extra \in ExtraSets }

----------------------------------------------------------------------------
(* Load normalization *)

\* a row of REF_Exercises: Type, Base_Wt, Multiplier; no row for the id
RefRow(type, base_wt, multiplier) == [type |-> type, base_wt |-> base_wt, multiplier |-> multiplier]
NoRef == RefRow("", 0, 0)

\* _infer_weight_metadata: (type, base_wt, multiplier) from the name (does
\* it say 'assist') and the equipment
_infer_weight_metadata(assisted, equipment) ==
    IF assisted THEN RefRow("Assisted", 0, 1)
    ELSE IF equipment = "barbell" THEN RefRow("Barbell", 200, 2)
    ELSE IF equipment = "machine" THEN RefRow("Plate_Loaded", 500, 2)
    ELSE RefRow("Dumbbell", 0, 1)

\* the reference rows of an exercise: those inferred for a new exercise,
\* and those the Weight_Type, Base_Wt and Multiplier columns can be set to
\* (update_exercise keeps the multiplier in {1, 2})
RefRows ==
    { _infer_weight_metadata(a, eq) : a \in BOOLEAN, eq \in {"barbell", "machine", "dumbbell"} }
    \cup { RefRow(t, b, m) : t \in {"Barbell", "Plate_Loaded"}, b \in {0, 150, 200}, m \in {1, 2} }
    \cup { RefRow("Machine", 0, 1), RefRow("Bodyweight", 0, 1), NoRef }

\* formula_for_h2, the Effective_Load_Kg cell of a LOG row: '' when the
\* Input_Weight cell is empty or no number; the exercise's Type and Base_Wt
\* are looked up in REF_Exercises ('Dumbbell' and 0 when the id has no
\* row) and the body weight in REF_Bio
formula_for_h2(input_weight, ref, user_wt) ==
    IF input_weight.k # "str" THEN Blank
    ELSE LET input_wt == input_weight.v
             ex_type == IF ref = NoRef THEN "Dumbbell" ELSE ref.type
             base_wt == IF ref = NoRef THEN 0 ELSE ref.base_wt
         IN  Str(CASE ex_type \in {"Barbell", "Plate_Loaded"} -> (input_wt * 2) + base_wt
                   [] ex_type = "Assisted" -> IF user_wt - input_wt > 0 THEN user_wt - input_wt ELSE 0
                   [] ex_type = "Bodyweight" -> user_wt + input_wt
                   [] OTHER -> input_wt)

\* a LOG row with an Input_Weight cell
LoadRow(input_weight) ==
    LogRow(DateText(1), "e1", "Bench", input_weight, Blank, Str(8), Str(90), "g1", "", Str(1))

\* the logs of SpecLoad: one row, its Input_Weight 60, 42.5 or 0 kg, empty
\* or no number
LoadLogs == { <<LoadRow(w)>> : w \in {Str(600), Str(425), Str(0), Blank, Bad} }

\* the last request and its response
Resp(op, fields) ==
    [op |-> op] @@ fields @@
    [id |-> "", action |-> "", success |-> FALSE, error |-> "", row_number |-> 0,
     attempts |-> 0,
     source |-> "", stale |-> FALSE, cache_was_set |-> FALSE, history |-> {},
     ref |-> NoRef, body_weight |-> 0, input_weight |-> Blank, load |-> Blank,
     values |-> <<>>, max_rows |-> 0, data |-> UpdateRequest(0, "", NoneV, {}),
     analytics |-> _empty_analytics_v4(0), faults |-> {}, period |-> 0,
     proposal |-> NoProposal]

----------------------------------------------------------------------------
(* Initial states and actions *)

InitWith(logs, ledgers, budget) ==
    /\ log_sheet \in logs
    /\ \E l \in ledgers : baseline_sheet = l.bl /\ proposals_sheet = l.pr
    /\ _log_cache = NoCache
    /\ _log_cache_timestamp = NoTime
    /\ now = 0
    /\ left = budget
    /\ resp = Resp("init", <<>>)
    /\ cacheOlderThanAck = FALSE

\* time.time() moves on within the cache's lifetime
Tick ==
    /\ left > 0
    /\ now % SecondsPerDay < _log_cache_ttl
    /\ now' = now + TickSeconds
    /\ left' = left - 1
    /\ UNCHANGED <<log_sheet, _log_cache, _log_cache_timestamp, baseline_sheet,
                   proposals_sheet, resp, cacheOlderThanAck>>

\* the wall clock reaches a later day
AdvanceDay ==
    /\ left > 0
    /\ now \div SecondsPerDay < DayStep
    /\ now' = now + DayStep * SecondsPerDay
    /\ left' = left - 1
    /\ UNCHANGED <<log_sheet, _log_cache, _log_cache_timestamp, baseline_sheet,
                   proposals_sheet, resp, cacheOlderThanAck>>

\* the wall clock reaches the next day
NextDay ==
    /\ left > 0
    /\ now \div SecondsPerDay < DayStep + MaxRegularDays
    /\ now' = now + SecondsPerDay
    /\ left' = left - 1
    /\ UNCHANGED <<log_sheet, _log_cache, _log_cache_timestamp, baseline_sheet,
                   proposals_sheet, resp, cacheOlderThanAck>>

\* api_save_set -> save_workout_set
SaveWorkoutSet ==
    /\ left > 0
    /\ \E data \in SaveData, append_fails \in BOOLEAN,
          lookup_fails \in BOOLEAN :
        \E r \in {save_workout_set(log_sheet, _log_cache, _log_cache_timestamp,
                                    data, today, lookup_fails, append_fails)} :
            /\ lookup_fails => data.exercise_name = "" /\ ~append_fails
            /\ log_sheet' = r.rows
            /\ _log_cache' = r.cache
            /\ _log_cache_timestamp' = r.timestamp
            /\ cacheOlderThanAck' = (r.cache.set /\ (cacheOlderThanAck \/ r.success))
            /\ resp' = Resp("save", [success |-> r.success,
                                     attempts |-> r.appends,
                                     row_number |-> r.row_number,
                                     cache_was_set |-> _log_cache.set])
    /\ left' = left - 1
    /\ UNCHANGED <<baseline_sheet, proposals_sheet, now>>

\* api_update_set -> update_workout_set
UpdateWorkoutSet ==
    /\ left > 0
    /\ \E case \in UpdateCases(log_sheet) :
        \E r \in {update_workout_set(log_sheet, _log_cache, _log_cache_timestamp,
                                    case[1], case[2])} :
            /\ log_sheet' = r.rows
            /\ _log_cache' = r.cache
            /\ _log_cache_timestamp' = r.timestamp
            /\ cacheOlderThanAck' = (r.cache.set /\ (cacheOlderThanAck \/ r.success))
            /\ resp' = Resp("update", [success |-> r.success,
                                       data |-> case[1],
                                       attempts |-> r.attempts,
                                       row_number |-> case[1].row_number,
                                       cache_was_set |-> _log_cache.set])
    /\ left' = left - 1
    /\ UNCHANGED <<baseline_sheet, proposals_sheet, now>>

\* api_history -> get_exercise_history
GetExerciseHistory ==
    /\ left > 0
    /\ \E fails \in BOOLEAN :
        \E read \in {_get_log_values_cached(_log_cache, _log_cache_timestamp, now,
                                           log_sheet, 1000, fails)} :
            /\ _log_cache' = read.cache
            /\ _log_cache_timestamp' = read.timestamp
            /\ cacheOlderThanAck' = (read.source # "store" /\ cacheOlderThanAck)
            /\ resp' = Resp("history",
                            [id |-> "e1",
                             success |-> read.source \in {"fresh_cache", "store"},
                             source |-> read.source,
                             attempts |-> read.reads,
                             stale |-> read.source \in {"fresh_cache", "stale_cache"}
                                       /\ cacheOlderThanAck,
                             cache_was_set |-> _log_cache.set,
                             history |-> get_exercise_history(read, "e1")])
    /\ left' = left - 1
    /\ UNCHANGED <<log_sheet, baseline_sheet, proposals_sheet, now>>

\* the sheet evaluates the Effective_Load_Kg formula of the first LOG row,
\* for a reference row of its exercise and a body weight of 90 or 80 kg
EffectiveLoad ==
    /\ left > 0
    /\ \E row \in RefRows, user_wt \in {900, 800} :
        resp' = Resp("effective_load",
                     [success |-> TRUE, ref |-> row, body_weight |-> user_wt,
                      input_weight |-> log_sheet[1].input_weight,
                      load |-> formula_for_h2(log_sheet[1].input_weight, row, user_wt)])
    /\ left' = left - 1
    /\ UNCHANGED <<log_sheet, _log_cache, _log_cache_timestamp, baseline_sheet,
                   proposals_sheet, now, cacheOlderThanAck>>

\* _get_log_values_cached(max_rows), for the default of 1000 rows and for
\* a limit the logs of the model exceed
GetLogValuesCached ==
    /\ left > 0
    /\ \E fails \in BOOLEAN, max_rows \in {1000, 2} :
        \E read \in {_get_log_values_cached(_log_cache, _log_cache_timestamp, now,
                                           log_sheet, max_rows, fails)} :
            /\ _log_cache' = read.cache
            /\ _log_cache_timestamp' = read.timestamp
            /\ cacheOlderThanAck' = (read.source # "store" /\ cacheOlderThanAck)
            /\ resp' = Resp("log_values",
                            [success |-> read.has_header,
                             source |-> read.source,
                             attempts |-> read.reads,
                             faults |-> IF fails THEN {"log"} ELSE {},
                             max_rows |-> max_rows,
                             values |-> read.values])
    /\ left' = left - 1
    /\ UNCHANGED <<log_sheet, baseline_sheet, proposals_sheet, now>>

\* api_global_history -> get_global_history
GetGlobalHistory ==
    /\ left > 0
    /\ \E fails \in {{}, {"log"}, {"exercises"}} :
        resp' = Resp("global_history",
                     [success |-> "log" \notin fails /\ ~GlobalHistoryRaises(log_sheet),
                      faults |-> fails,
                      history |-> get_global_history(log_sheet, "log" \in fails,
                                                     "exercises" \in fails)])
    /\ left' = left - 1
    /\ UNCHANGED <<log_sheet, _log_cache, _log_cache_timestamp, baseline_sheet,
                   proposals_sheet, now, cacheOlderThanAck>>

\* api_analytics -> get_analytics_v4, for a period of `periods` and the
\* reads of one of `fault_sets` raising
AnalyticsRequest(periods, fault_sets) ==
    /\ left > 0
    /\ \E period \in periods, faults \in fault_sets :
        \E r \in {get_analytics_v4(log_sheet, period, today, baseline_sheet,
                                  proposals_sheet, faults)} :
            /\ baseline_sheet' = r.bl_sheet
            /\ proposals_sheet' = r.prop_sheet
            /\ resp' = Resp("analytics",
                            [success |-> ~r.raised,
                             period |-> period,
                             faults |-> faults,
                             cache_was_set |-> _log_cache.set,
                             analytics |-> r.response])
    /\ left' = left - 1
    /\ UNCHANGED <<log_sheet, _log_cache, _log_cache_timestamp, now,
                   cacheOlderThanAck>>

\* an analytics request of the client (7 or 14 days), with a read failing
GetAnalytics == AnalyticsRequest(Periods, AnalyticsFaults)

\* an analytics request with any period of the query string, no read failing
GetAnalyticsAnyPeriod == AnalyticsRequest(QueryPeriods, {{}})

\* an analytics request without a period in the query string: 14 days
GetAnalyticsDefault == AnalyticsRequest({14}, {{}})

\* api_confirm_baseline -> confirm_baseline_proposal
ConfirmBaseline ==
    /\ left > 0
    /\ \E proposal_id \in ProposalIds(proposals_sheet.rows), action \in Actions :
        \E fault \in 0..ConfirmCalls(proposals_sheet, baseline_sheet,
                                     proposal_id, action) :
        \E r \in {confirm_baseline_proposal(proposals_sheet, baseline_sheet,
                                           proposal_id, action, today, fault)} :
            /\ baseline_sheet' = r.bl_sheet
            /\ proposals_sheet' = r.prop_sheet
            /\ resp' = Resp("confirm",
                            [id |-> proposal_id,
                             action |-> action,
                             success |-> r.success,
                             error |-> r.error,
                             proposal |-> NamedProposal(proposals_sheet.rows,
                                                        proposal_id)])
    /\ left' = left - 1
    /\ UNCHANGED <<log_sheet, _log_cache, _log_cache_timestamp, now,
                   cacheOlderThanAck>>

\* every handler and the clock, from a stored baseline or from no ledger
Init == InitWith({History, <<>>}, {StoredLedgers, NoLedgers}, MaxRequests)

Next ==
    \/ Tick
    \/ AdvanceDay
    \/ SaveWorkoutSet
    \/ UpdateWorkoutSet
    \/ GetExerciseHistory
    \/ GetGlobalHistory
    \/ GetAnalytics
    \/ ConfirmBaseline

Spec == Init /\ [][Next]_vars

\* the proposal workflow and the analytics that reads its ledgers
InitLedger ==
    \/ InitWith({History}, {StoredLedgers, FreshLedgers}, MaxLedgerSteps)
    \/ InitWith({<<>>, Undated}, {NoLedgers}, MaxLedgerSteps)

NextLedger ==
    \/ GetAnalytics
    \/ ConfirmBaseline

SpecLedger == InitLedger /\ [][NextLedger]_vars

\* the LOG, its cache and the clock
InitLog == InitWith({History, <<>>}, {NoLedgers}, MaxLogSteps)

NextLog ==
    \/ Tick
    \/ AdvanceDay
    \/ SaveWorkoutSet
    \/ UpdateWorkoutSet
    \/ GetExerciseHistory
    \/ GetAnalytics

SpecLog == InitLog /\ [][NextLog]_vars

\* get_analytics_v4 over every short log, on 22 January, nothing stored
InitMetrics ==
    /\ log_sheet \in MetricLogs
    /\ baseline_sheet = NoLedgers.bl
    /\ proposals_sheet = NoLedgers.pr
    /\ _log_cache = NoCache
    /\ _log_cache_timestamp = NoTime
    /\ now = (MetricsDay - StartDay) * SecondsPerDay
    /\ left = 1
    /\ resp = Resp("init", <<>>)
    /\ cacheOlderThanAck = FALSE

NextMetrics == GetAnalyticsAnyPeriod

SpecMetrics == InitMetrics /\ [][NextMetrics]_vars

\* get_analytics_v4 over the training histories, nothing stored
InitBaseline ==
    /\ log_sheet \in TrainingLogs
    /\ baseline_sheet = NoLedgers.bl
    /\ proposals_sheet = NoLedgers.pr
    /\ _log_cache = NoCache
    /\ _log_cache_timestamp = NoTime
    /\ now = (MetricsDay - StartDay) * SecondsPerDay
    /\ left = 1
    /\ resp = Resp("init", <<>>)
    /\ cacheOlderThanAck = FALSE

NextBaseline == GetAnalyticsDefault

SpecBaseline == InitBaseline /\ [][NextBaseline]_vars

\* get_global_history over every short log
InitHistory ==
    /\ log_sheet \in ViewLogs
    /\ baseline_sheet = NoLedgers.bl
    /\ proposals_sheet = NoLedgers.pr
    /\ _log_cache = NoCache
    /\ _log_cache_timestamp = NoTime
    /\ now = 0
    /\ left = 1
    /\ resp = Resp("init", <<>>)
    /\ cacheOlderThanAck = FALSE

NextHistory == GetGlobalHistory

SpecHistory == InitHistory /\ [][NextHistory]_vars

\* saves and analytics requests as the days pass: a LOG holding four
\* training days before the first day of the clock, or nothing
InitReturn == InitWith({History, <<>>}, {NoLedgers}, MaxReturnSteps)

NextReturn ==
    \/ NextDay
    \/ AdvanceDay
    \/ SaveWorkoutSet
    \/ GetAnalyticsDefault

SpecReturn == InitReturn /\ [][NextReturn]_vars

\* cached reads of the LOG between saves, as the clock advances
InitCache == InitWith({History, <<>>}, {NoLedgers}, MaxLogSteps)

NextCache ==
    \/ Tick
    \/ SaveWorkoutSet
    \/ GetLogValuesCached

SpecCache == InitCache /\ [][NextCache]_vars

\* the Effective_Load_Kg formula over one-row logs
InitLoad ==
    /\ log_sheet \in LoadLogs
    /\ baseline_sheet = NoLedgers.bl
    /\ proposals_sheet = NoLedgers.pr
    /\ _log_cache = NoCache
    /\ _log_cache_timestamp = NoTime
    /\ now = 0
    /\ left = 1
    /\ resp = Resp("init", <<>>)
    /\ cacheOlderThanAck = FALSE

NextLoad == EffectiveLoad

SpecLoad == InitLoad /\ [][NextLoad]_vars

----------------------------------------------------------------------------
(* Properties *)

\* the data rows of a ledger that carry an exercise
RowsOf(rows, ex_id) == {i \in 1..Len(rows) : rows[i].exercise_id = ex_id}

\* the last response is that of a confirmation request
Confirmed(action) == resp.op = "confirm" /\ resp.action = action

\* C1: after confirm_baseline_proposal(id, 'CONFIRM') succeeds on a PENDING
\* proposal, the baseline ledger holds exactly one row for the proposal's
\* exercise, with the proposal's new baseline as its weight and the status
\* 'updated'; and no sequence of confirmations, whole or cut short by a
\* failing store call, gives an exercise a second row.
C1_ConfirmLeavesOneUpdatedRow ==
    /\ \A i, j \in 1..Len(baseline_sheet.rows) :
           baseline_sheet.rows[i].exercise_id = baseline_sheet.rows[j].exercise_id
               => i = j
    /\ (Confirmed("CONFIRM") /\ resp.success /\ resp.proposal.status = "PENDING")
       => /\ Cardinality(RowsOf(baseline_sheet.rows, resp.proposal.exercise_id)) = 1
          /\ \A i \in RowsOf(baseline_sheet.rows, resp.proposal.exercise_id) :
                 /\ baseline_sheet.rows[i].baseline_weight = resp.proposal.new_baseline
                 /\ baseline_sheet.rows[i].status = "updated"

\* C1 reached: a second confirmation for e1 (p1 appended the row, p3 then
\* rewrote it in place)
C1_Witness ==
    /\ Confirmed("CONFIRM") /\ resp.success /\ resp.id = "p3"
    /\ resp.proposal.status = "PENDING"
    /\ \E i \in 1..Len(proposals_sheet.rows) :
           /\ proposals_sheet.rows[i].proposal_id = "p1"
           /\ proposals_sheet.rows[i].status = "CONFIRM"
    /\ Len(baseline_sheet.rows) = 1
    /\ baseline_sheet.rows[1].baseline_weight = Str(1050)

\* C2: a DECLINE or SNOOZE step leaves every row of the baseline ledger as
\* it was, and changes nothing of the proposal ledger but the status cell
\* of the proposal it names.
C2_DeclineSnoozeFrame ==
    [][ (resp'.op = "confirm" /\ resp'.action \in {"DECLINE", "SNOOZE"})
        => /\ baseline_sheet'.rows = baseline_sheet.rows
           /\ Len(proposals_sheet'.rows) = Len(proposals_sheet.rows)
           /\ \A i \in 1..Len(proposals_sheet.rows) :
                  \/ proposals_sheet'.rows[i] = proposals_sheet.rows[i]
                  \/ /\ proposals_sheet.rows[i].proposal_id = resp'.id
                     /\ proposals_sheet'.rows[i] =
                            [proposals_sheet.rows[i] EXCEPT !.status = resp'.action]
      ]_vars

\* C2 reached: a SNOOZE went through with a stored baseline in the ledger
C2_Witness ==
    /\ Confirmed("SNOOZE") /\ resp.success
    /\ baseline_sheet.rows # <<>>
    /\ \E i \in 1..Len(proposals_sheet.rows) :
           /\ proposals_sheet.rows[i].proposal_id = resp.id
           /\ proposals_sheet.rows[i].status = "SNOOZE"
    /\ \E i \in 1..Len(proposals_sheet.rows) :
           proposals_sheet.rows[i].status = "PENDING"

\* C3: an action on a proposal whose status is no longer PENDING is
\* rejected with an explicit reason.
C3_NonPendingRejected ==
    (/\ resp.op = "confirm"
     /\ resp.proposal.proposal_id # ""
     /\ resp.proposal.status # "PENDING")
    => ~resp.success /\ resp.error # ""

\* C4: a confirmation naming an id no row of the proposal ledger carries
\* answers success False with an error, and leaves the rows of both ledgers
\* as they were.
C4_UnknownIdRejected ==
    [][ (/\ resp'.op = "confirm"
         /\ \A i \in 1..Len(proposals_sheet.rows) :
                proposals_sheet.rows[i].proposal_id # resp'.id)
        => /\ ~resp'.success
           /\ resp'.error # ""
           /\ proposals_sheet'.rows = proposals_sheet.rows
           /\ baseline_sheet'.rows = baseline_sheet.rows
      ]_vars

\* C4 reached: an unknown id was looked for among existing proposals
C4_Witness ==
    /\ resp.op = "confirm" /\ resp.id = "p9"
    /\ ~resp.success /\ resp.error = "Proposal not found"
    /\ Len(proposals_sheet.rows) = 2

\* C5: the rows of the baseline ledger change only in a step of
\* confirm_baseline_proposal with action CONFIRM.
C5_OnlyConfirmWritesBaseline ==
    [][ baseline_sheet'.rows # baseline_sheet.rows
        => resp'.op = "confirm" /\ resp'.action = "CONFIRM"
      ]_vars

\* C5 reached: a CONFIRM rewrote the stored baseline of e1
C5_Witness ==
    /\ Confirmed("CONFIRM")
    /\ baseline_sheet.rows = <<BaselineRow("e1", Str(1100), StartDay, Blank, "updated")>>

\* C6: for an exercise with a stored baseline, the baseline get_analytics_v4
\* reports is the stored weight, whatever the log holds.
C6_ReportedBaselineIsStored ==
    (resp.op = "analytics" /\ resp.faults = {})
    => \A k \in 1..Len(resp.analytics.baselines) :
           LET entry == resp.analytics.baselines[k]
               mine == RowsOf(baseline_sheet.rows, entry.exerciseId)
           IN  mine # {}
               => entry.baseline =
                      to_float(baseline_sheet.rows[SetMax(mine)].baseline_weight, 0)

\* the estimator's candidate for an exercise over the sets of the LOG
Candidate(ex_id) ==
    _calc_baseline_for_exercise(ex_id, ExerciseInfo(ex_id).equipmentType,
                                ExerciseInfo(ex_id).exerciseType,
                                AllSets(ExerciseIds, log_sheet))

\* the stored baseline and the candidate are at least one equipment step apart
Diverges(ex_id, stored) ==
    LET step == IF ExerciseInfo(ex_id).equipmentType = "barbell" THEN 25 ELSE 10
    IN  /\ Candidate(ex_id) # NoBaseline
        /\ \/ Candidate(ex_id) - stored >= step
           \/ stored - Candidate(ex_id) >= step

\* C7: after an analytics pass whose candidate for an exercise is a step or
\* more away from its stored baseline, a PENDING proposal from the stored
\* value to the candidate is in the proposal ledger and in the response.
C7_DivergenceCreatesProposal ==
    (resp.op = "analytics" /\ resp.faults = {} /\ HasUsableSet(log_sheet))
    => \A i \in 1..Len(baseline_sheet.rows) :
           LET ex_id == baseline_sheet.rows[i].exercise_id
               stored == to_float(baseline_sheet.rows[i].baseline_weight, 0)
           IN  Diverges(ex_id, stored)
               => /\ \E j \in 1..Len(proposals_sheet.rows) :
                         /\ proposals_sheet.rows[j].exercise_id = ex_id
                         /\ proposals_sheet.rows[j].status = "PENDING"
                         /\ to_float(proposals_sheet.rows[j].old_baseline, 0) = stored
                         /\ to_float(proposals_sheet.rows[j].new_baseline, 0)
                                = Candidate(ex_id)
                  /\ \E k \in 1..Len(resp.analytics.proposals) :
                         /\ resp.analytics.proposals[k].exerciseId = ex_id
                         /\ resp.analytics.proposals[k].newBaseline = Candidate(ex_id)

\* C8: when save_workout_set or update_workout_set has answered success the
\* cache and its timestamp are None; the cache never holds, and
\* get_exercise_history never serves, rows read before an acknowledged
\* write; a history answered from the store is that of the sheet as the
\* writes left it.
C8_AckedWriteInvalidatesCache ==
    /\ (resp.op \in {"save", "update"} /\ resp.success)
       => ~_log_cache.set /\ _log_cache_timestamp = NoTime
    /\ _log_cache.set => ~cacheOlderThanAck
    /\ resp.op = "history" => ~resp.stale
    /\ (resp.op = "history" /\ resp.source = "store")
       => /\ _log_cache.rows = log_sheet
          /\ \A i \in 1..Len(log_sheet) :
                 log_sheet[i].ex_id = resp.id
                 => \E day \in resp.history :
                        \E k \in 1..Len(day.sets) :
                            /\ day.date = DateVal(log_sheet[i].date)
                            /\ day.sets[k].weight = to_float(log_sheet[i].total_weight, 0)
                            /\ day.sets[k].reps = to_int(log_sheet[i].reps, 0)

\* C8 reached: a save was acknowledged while the cache held the LOG
C8_Witness ==
    /\ resp.op = "save" /\ resp.success /\ resp.cache_was_set
    /\ ~_log_cache.set
    /\ Len(log_sheet) = Len(History) + 1

\* C9: when the read of the LOG fails while content is cached,
\* get_exercise_history and get_analytics_v4 answer from the cached content.
C9_FailedReadAnswersFromCache ==
    /\ (resp.op = "history" /\ ~resp.success /\ resp.cache_was_set)
       => resp.source = "stale_cache"
    /\ (/\ resp.op = "analytics" /\ "log" \in resp.faults
        /\ _log_cache.set /\ HasUsableSet(_log_cache.rows))
       => resp.analytics # _empty_analytics_v4(resp.period)

\* some row of the LOG has a date that parses, a positive weight and
\* positive reps
SomeDatedSet ==
    \E i \in 1..Len(log_sheet) :
        /\ log_sheet[i].date.k = "text"
        /\ to_float(log_sheet[i].total_weight, 0) > 0
        /\ to_int(log_sheet[i].reps, 0) > 0

\* the empty analytics response for a period: maintenance mode, frequency
\* score 0 / red, max gap 0 / ok, no baselines, no proposals
IsEmptyResponse(r, period) ==
    /\ r.mode = "Podderzhanie"
    /\ r.frequencyScore.value = 0 /\ r.frequencyScore.status = "red"
    /\ r.maxGap.value = 0 /\ r.maxGap.status = "ok"
    /\ r.baselines = <<>>
    /\ r.proposals = <<>>
    /\ r.period = period

\* C10 as amended: get_analytics_v4 answers the empty response for the
\* requested period when the read of the LOG fails and when the LOG has no
\* set with a parsed date; a failing read of the EXERCISES, BASELINE or
\* BASELINE_PROPOSALS sheet is absorbed instead: the response is computed
\* from the LOG, with no baseline entries, without the stored baselines, or
\* with no proposals.
C10_EmptyOnLogFailure ==
    resp.op = "analytics"
    => /\ resp.analytics.period = resp.period
       /\ ("log" \in resp.faults \/ ~SomeDatedSet)
          => IsEmptyResponse(resp.analytics, resp.period)
       /\ ("log" \notin resp.faults /\ SomeDatedSet)
          => /\ resp.analytics.frequencyScore.target = TargetSessions(resp.period)
             /\ Len(resp.analytics.baselines) =
                    (IF "exercises" \in resp.faults THEN 0 ELSE Len(ExerciseIds))
             /\ "proposals" \in resp.faults => resp.analytics.proposals = <<>>
             /\ "baseline" \in resp.faults
                => \A k \in 1..Len(resp.analytics.baselines) :
                       resp.analytics.baselines[k].status \in {"ready", "locked"}

\* C10 reached: the read of a LOG that holds sets failed
C10_Witness ==
    /\ resp.op = "analytics" /\ resp.faults = {"log"} /\ ~resp.success
    /\ SomeDatedSet
    /\ IsEmptyResponse(resp.analytics, resp.period)

\* C10 as stated: any failing store access gives the empty response
C10_EmptyOnAnyFailure ==
    (resp.op = "analytics" /\ (resp.faults # {} \/ ~SomeDatedSet))
    => IsEmptyResponse(resp.analytics, resp.period)

----------------------------------------------------------------------------
\* C11: a store call that failed is made again, at most 3 times in all,
\* before the failure is answered: a save, an update or a history read that
\* reached the store and was answered with a failure made 2 or 3 attempts
C11_FailedCallRetried ==
    (/\ resp.op \in {"save", "update", "history"}
     /\ ~resp.success
     /\ resp.attempts >= 1) => resp.attempts \in 2..max_retries

----------------------------------------------------------------------------
(* Analytics over a log and over the log without one of its rows *)

\* the outputs of an analytics response the metrics claims are about
Metrics(a) ==
    [frequencyScore |-> a.frequencyScore, maxGap |-> a.maxGap, mode |-> a.mode,
     baselines |-> a.baselines]

\* the log without its i-th data row
WithoutRow(rows, i) == SubSeqAt(rows, (1..Len(rows)) \ {i})

\* the metrics the last analytics request would have answered over `rows`
MetricsOver(rows) ==
    Metrics(get_analytics_v4(rows, resp.period, today, baseline_sheet,
                             proposals_sheet, resp.faults).response)

\* the last analytics request answers the same with and without row i
SameWithoutRow(i) ==
    MetricsOver(WithoutRow(log_sheet, i)) = Metrics(resp.analytics)

\* the days of the rows other than i that count as sets
CountedDaysBut(i) ==
    {_parse_date_flexible(log_sheet[j].date).date :
        j \in {k \in (1..Len(log_sheet)) \ {i} :
                  /\ IsUsableRow(log_sheet[k])
                  /\ _parse_date_flexible(log_sheet[k].date).date # NoDate}}

\* C12: a row whose reps are <= 0 or whose total load is <= 0 contributes to
\* no analytics output: frequencyScore, maxGap, mode and the baselines of
\* every analytics response are those of the log without that row
C12_UncountedRowContributesNothing ==
    resp.op = "analytics" =>
        \A i \in 1..Len(log_sheet) :
            (\/ to_int(log_sheet[i].reps, 0) <= 0
             \/ to_float(log_sheet[i].total_weight, 0) <= 0) => SameWithoutRow(i)

\* an answered log with sets on 1 and 20 January and, between them, a row
\* of 8 January with a load and no reps: counted, it would cut the gap of
\* 19 days
C12_Witness ==
    /\ resp.op = "analytics"
    /\ resp.success
    /\ resp.analytics.maxGap.value = 19
    /\ \E i \in 1..Len(log_sheet) :
        /\ to_int(log_sheet[i].reps, 0) <= 0
        /\ to_float(log_sheet[i].total_weight, 0) > 0
        /\ _parse_date_flexible(log_sheet[i].date).date = 8
        /\ CountedDaysBut(i) = {1, 20}

\* a date cell that is empty, or neither a day serial nor a text of an
\* accepted format
IsNoDate(cell) ==
    \/ cell.k \in {"empty", "garbage"}
    \/ cell.k = "serial" /\ ~(1000 < cell.day /\ cell.day < 100000)

\* C13: a row whose date cell is empty or is no date is dropped from the
\* analytics: frequencyScore, maxGap, mode and the baselines of every
\* analytics response are those computed from the other rows
C13_UndatedRowDropped ==
    resp.op = "analytics" =>
        \A i \in 1..Len(log_sheet) :
            IsNoDate(log_sheet[i].date) => SameWithoutRow(i)

\* an answered log with sets on 1 and 20 January and a row with a load and
\* reps whose date is a text no format matches or a numeral outside the
\* serial range: the other rows are processed (gap 19, one session in the
\* window)
C13_Witness ==
    /\ resp.op = "analytics"
    /\ resp.success
    /\ resp.analytics.maxGap.value = 19
    /\ resp.analytics.frequencyScore.actual = 1
    /\ \E i \in 1..Len(log_sheet) :
        /\ log_sheet[i].date \in {DateGarbage, DateSerial(500)}
        /\ to_int(log_sheet[i].reps, 0) > 0
        /\ to_float(log_sheet[i].total_weight, 0) > 0
        /\ CountedDaysBut(i) = {1, 20}

\* a cell that holds no decimal numeral
IsNoNumber(cell) == cell.k \in {"bad", "inf"}

\* C14: a malformed numeric field never raises and is never fatal: to_int
\* answers the reps of every row, and a row whose load or reps are no number
\* is skipped, the response being the computed one of the remaining rows
C14_MalformedNumberSkipped ==
    resp.op = "analytics" =>
        \A i \in 1..Len(log_sheet) :
            (IsNoNumber(log_sheet[i].total_weight) \/ IsNoNumber(log_sheet[i].reps)) =>
                /\ ~to_int_raises(log_sheet[i].reps, 0)
                /\ resp.success
                /\ SameWithoutRow(i)

----------------------------------------------------------------------------
(* The metrics of an analytics response *)

\* the distinct training dates of the log: the days of the rows that count
TrainingDates == CountedDaysBut(0)

\* the days between two consecutive dates of D
ConsecutiveGaps(D) ==
    {b - a : <<a, b>> \in {p \in D \X D :
                              /\ p[1] < p[2]
                              /\ ~\E c \in D : p[1] < c /\ c < p[2]}}

LargestGap(D) == IF ConsecutiveGaps(D) = {} THEN 0 ELSE SetMax(ConsecutiveGaps(D))

\* the log read from the last row to the first
Reversed(rows) == [k \in 1..Len(rows) |-> rows[Len(rows) - k + 1]]

\* C15: maxGap.value is the largest number of days between two consecutive
\* distinct training dates of the whole log, 0 below two dates, whatever
\* the period and the order of the rows; its status is ok up to 4 days,
\* warning up to 7 and the return band above
C15_MaxGapIsLargestGap ==
    (resp.op = "analytics" /\ resp.success) =>
        /\ resp.analytics.maxGap.value = LargestGap(TrainingDates)
        /\ MetricsOver(Reversed(log_sheet)).maxGap = resp.analytics.maxGap
        /\ resp.analytics.maxGap.status =
              (IF resp.analytics.maxGap.value <= 4 THEN "ok"
               ELSE IF resp.analytics.maxGap.value <= 7 THEN "warning"
               ELSE "vkat")

\* sets on 1, 8 and 20 January, the latest first in the log: 12 days, the
\* return band
C15_Witness ==
    /\ resp.op = "analytics"
    /\ resp.success
    /\ TrainingDates = {1, 8, 20}
    /\ log_sheet[1].date = DateText(20)
    /\ resp.analytics.maxGap = [value |-> 12, status |-> "vkat"]

\* C16: the mode follows a strict priority: return whenever the largest gap
\* exceeds 7 days, whatever the frequency score; else maintenance whenever
\* the frequency score is below 0.6; else stable
C16_ModePriority ==
    resp.op = "analytics" =>
        /\ resp.analytics.mode \in {"Vkat", "Podderzhanie", "Stabilny"}
        /\ resp.analytics.mode = "Vkat" <=> resp.analytics.maxGap.value > 7
        /\ resp.analytics.mode = "Podderzhanie" <=>
              (resp.analytics.maxGap.value <= 7
               /\ resp.analytics.frequencyScore.value < 60)
        /\ resp.success => (resp.analytics.mode = "Vkat" <=>
                               LargestGap(TrainingDates) > 7)

\* a gap of more than 7 days in a log whose frequency score is below 0.6:
\* the mode is return, not maintenance
C16_Witness ==
    /\ resp.op = "analytics"
    /\ resp.success
    /\ LargestGap(TrainingDates) > 7
    /\ resp.analytics.frequencyScore.value < 60
    /\ resp.analytics.mode = "Vkat"

\* the training dates inside the trailing window of the last request
DatesInWindow == {d \in TrainingDates : d > today - resp.period}

\* ceil(period / 7 * 3)
CeilTarget(period) == (period * 3 + 6) \div 7

\* C17: for every period the request accepts, frequencyScore.target is
\* ceil(period / 7 * 3), actual is the number of distinct training dates in
\* the trailing window, value is actual / target (in hundredths), and the
\* status is green from 0.8, yellow from 0.6 and red below
C17_FrequencyScore ==
    (resp.op = "analytics" /\ resp.success) =>
        /\ resp.analytics.frequencyScore.target = CeilTarget(resp.period)
        /\ resp.analytics.frequencyScore.actual = Cardinality(DatesInWindow)
        /\ resp.analytics.frequencyScore.value =
              RoundHalfEven(100 * resp.analytics.frequencyScore.actual,
                            resp.analytics.frequencyScore.target)
        /\ resp.analytics.frequencyScore.status =
              (IF resp.analytics.frequencyScore.value >= 80 THEN "green"
               ELSE IF resp.analytics.frequencyScore.value >= 60 THEN "yellow"
               ELSE "red")

----------------------------------------------------------------------------
(* The baseline estimator over a training history *)

\* the rows of the log that count as sets of an exercise on a parsed date
SetsOf(ex_id) ==
    {i \in 1..Len(log_sheet) :
        /\ log_sheet[i].ex_id = ex_id
        /\ IsUsableRow(log_sheet[i])
        /\ _parse_date_flexible(log_sheet[i].date).date # NoDate}

DayOf(i) == _parse_date_flexible(log_sheet[i].date).date

\* the sets of an exercise with reps inside the band of its type
QualifyingSets(ex_id) ==
    {i \in SetsOf(ex_id) :
        to_int(log_sheet[i].reps, 0) \in RepBand(ExerciseInfo(ex_id).exerciseType)}

\* the training days of an exercise, and those with a qualifying set
TrainingDays(ex_id) == {DayOf(i) : i \in SetsOf(ex_id)}
QualifyingDays(ex_id) == {DayOf(i) : i \in QualifyingSets(ex_id)}

\* what the estimator returns for an exercise over the log
BaselineOf(ex_id) ==
    _calc_baseline_for_exercise(ex_id, ExerciseInfo(ex_id).equipmentType,
                                ExerciseInfo(ex_id).exerciseType,
                                AllSets(get_all_exercises(FALSE), log_sheet))

\* the entry of an exercise in the baselines list of the last response
ReportedEntry(ex_id) ==
    The({ resp.analytics.baselines[k] :
          k \in {j \in 1..Len(resp.analytics.baselines) :
                   resp.analytics.baselines[j].exerciseId = ex_id} })

\* C18: the estimator returns a baseline exactly when the exercise has at
\* least 4 distinct training days with a set whose reps are inside the band
\* of its type (compound 6..12, isolation 8..15, bounds included); with
\* fewer, and nothing stored, the exercise is reported as locked
C18_BaselineNeedsFourDays ==
    \A ex_id \in {"e1", "e2"} :
        \A bl \in {BaselineOf(ex_id)}, days \in {Cardinality(QualifyingDays(ex_id))} :
            /\ bl # NoBaseline <=> days >= 4
            /\ (resp.op = "analytics" /\ resp.success
                  /\ resp.analytics.baselines # <<>>) =>
                  /\ ReportedEntry(ex_id).baseline = bl
                  /\ ReportedEntry(ex_id).status =
                        (IF days >= 4 THEN "ready" ELSE "locked")

\* an answered history of five training days of e1, three of them with a
\* set in the band (the other two just outside it): no baseline, locked
C18_Witness ==
    /\ resp.op = "analytics"
    /\ resp.success
    /\ Cardinality(TrainingDays("e1")) = 5
    /\ Cardinality(QualifyingDays("e1")) = 3
    /\ ReportedEntry("e1").baseline = NoBaseline
    /\ ReportedEntry("e1").status = "locked"

\* the heaviest qualifying set of an exercise on a day
BestOn(ex_id, d) ==
    SetMax({to_float(log_sheet[i].total_weight, 0) :
               i \in {j \in QualifyingSets(ex_id) : DayOf(j) = d}})

\* the k latest days of D
LatestDays(D, k) == {d \in D : Cardinality({e \in D : e > d}) < k}

\* the per-day candidate weights of an exercise over the days D
Weights(ex_id, D) == [d \in D |-> BestOn(ex_id, d)]

\* the k-th smallest value of a function with a finite domain
KthSmallest(f, k) ==
    CHOOSE v \in {f[x] : x \in DOMAIN f} :
        /\ Cardinality({x \in DOMAIN f : f[x] < v}) < k
        /\ k <= Cardinality({x \in DOMAIN f : f[x] <= v})

\* twice the median of the values of f
TwiceMiddle(f) ==
    KthSmallest(f, (Cardinality(DOMAIN f) + 1) \div 2)
    + KthSmallest(f, Cardinality(DOMAIN f) \div 2 + 1)

\* b is a multiple of the step nearest to the median of f
IsRoundedMedian(b, f, step) ==
    /\ b % step = 0
    /\ \E m \in {TwiceMiddle(f)} : 2 * b - m <= step /\ m - 2 * b <= step

\* the sets of k points of f that hold its k highest values
TopSets(f, k) ==
    {T \in SUBSET DOMAIN f :
        /\ Cardinality(T) = k
        /\ \A x \in T, y \in (DOMAIN f) \ T : f[x] >= f[y]}

\* b is the median of f without its k highest values, rounded to the step
IsTrimmedMedian(b, f, k, step) ==
    \E T \in TopSets(f, k) :
        \E rest \in {[x \in (DOMAIN f) \ T |-> f[x]]} :
            IsRoundedMedian(b, rest, step)

\* the equipment step: 2.5 kg for a barbell, 1 kg otherwise
StepOf(ex_id) == IF ExerciseInfo(ex_id).equipmentType = "barbell" THEN 25 ELSE 10

\* the candidates of the estimator: one for each of the 8 latest days with
\* a qualifying set
CandidatesOf(ex_id) == Weights(ex_id, LatestDays(QualifyingDays(ex_id), 8))

AllCandidatesOf(ex_id) == Weights(ex_id, QualifyingDays(ex_id))

\* the candidates the claim has trimmed: one below 10, ceil(n / 10) from 10
TrimCount(n) == IF n >= 10 THEN (n + 9) \div 10 ELSE 1

RecentCandidatesOf(ex_id) ==
    Weights(ex_id, QualifyingDays(ex_id) \cap LatestDays(TrainingDays(ex_id), 8))

\* C20: the candidates come only from the exercise's 8 most recent training
\* days, the heaviest qualifying set of each: the reported baseline is the
\* estimate over those candidates (none below 4 of them), whatever was done
\* on older days
C20_OnlyEightLatestTrainingDays ==
    (resp.op = "analytics" /\ resp.success /\ resp.analytics.baselines # <<>>) =>
        \A ex_id \in {"e1", "e2"} :
            IF Cardinality(DOMAIN RecentCandidatesOf(ex_id)) < 4
            THEN ReportedEntry(ex_id).baseline = NoBaseline
            ELSE IsTrimmedMedian(ReportedEntry(ex_id).baseline,
                                 RecentCandidatesOf(ex_id), 1, StepOf(ex_id))

\* the dated rows of the log, and those of one date
Dated == {i \in 1..Len(log_sheet) : DateVal(log_sheet[i].date).k # "empty"}
OnDate(d) == {i \in Dated : DateVal(log_sheet[i].date) = d}

\* the exercises with a set of a set group on a date
ExercisesOf(d, sg) == {log_sheet[i].ex_id : i \in {j \in OnDate(d) : log_sheet[j].set_group = sg}}

\* the history holds a day of that date
DayOfView(d) == {day \in resp.history : day.date = d}

\* the name the history shows for an exercise
ShownName(ex_id) == IF ex_id \in {"e1", "e2"} /\ "exercises" \notin resp.faults THEN ExerciseInfo(ex_id).name ELSE "Unknown"

\* the blocks of a day that carry a superset id
MarkedBlocks(day, name, sg) == {k \in 1..Len(day.exercises) : day.exercises[k].name = name /\ day.exercises[k].supersetId = sg}

\* C21: a block of a day carries a supersetId exactly when, on that date,
\* at least 2 distinct exercises have sets with that non-empty set group;
\* the block of a set group used by one exercise carries none
C21_SupersetIffTwoExercises ==
    (resp.op = "global_history" /\ resp.success /\ resp.faults = {}) =>
        \A i \in Dated :
            \A d \in {DateVal(log_sheet[i].date)}, sg \in {log_sheet[i].set_group} :
                \A day \in DayOfView(d) :
                    (sg # "" /\ Cardinality(ExercisesOf(d, sg)) >= 2)
                    <=> (sg # "" /\ MarkedBlocks(day, ShownName(log_sheet[i].ex_id), sg) # {})

\* the same, for logs whose exercises are all in the reference
C21_SupersetOfKnownExercises ==
    (\A i \in Dated : log_sheet[i].ex_id \in {"e1", "e2"}) => C21_SupersetIffTwoExercises

\* the sets the history shows on a date under a name, over all blocks
ShownSets(d, name) == UNION { UNION { {<<day, k, n>> : n \in 1..Len(day.exercises[k].sets)} : k \in {j \in 1..Len(day.exercises) : day.exercises[j].name = name} } : day \in DayOfView(d) }

\* the rows of a date whose exercise is shown under a name
RowsShownAs(d, name) == {i \in OnDate(d) : ShownName(log_sheet[i].ex_id) = name}

\* every dated row is one set of one block of one day, under the name of its
\* exercise or under 'Unknown', and the history holds no other day or set
EveryRowShownOnce ==
    /\ \A i \in Dated :
          \A d \in {DateVal(log_sheet[i].date)}, name \in {ShownName(log_sheet[i].ex_id)} :
              /\ Cardinality(DayOfView(d)) = 1
              /\ Cardinality(ShownSets(d, name)) = Cardinality(RowsShownAs(d, name))
    /\ \A day \in resp.history :
          /\ OnDate(day.date) # {}
          /\ \A k \in 1..Len(day.exercises) :
                /\ RowsShownAs(day.date, day.exercises[k].name) # {}
                /\ \A n \in 1..Len(day.exercises[k].sets) :
                      \E i \in RowsShownAs(day.date, day.exercises[k].name) :
                          day.exercises[k].sets[n] = [weight |-> to_float(log_sheet[i].total_weight, 0), reps |-> to_int(log_sheet[i].reps, 0), rest |-> to_float(log_sheet[i].rest, 0)]

\* C22: no set is lost from the history view: whenever the LOG was read,
\* every row with a non-empty date is exactly one set of exactly one block
\* of exactly one day, a row of an unknown exercise under 'Unknown'
C22_NoSetLost ==
    (resp.op = "global_history" /\ "log" \notin resp.faults) => EveryRowShownOnce

\* the same, for the requests in which no row raised
C22_NoSetLostWhenComputed ==
    (resp.op = "global_history" /\ resp.success) => EveryRowShownOnce

\* a history with a set under 'Unknown' next to a set of a known exercise
C22_UnknownShown ==
    /\ resp.op = "global_history" /\ resp.success /\ resp.faults = {}
    /\ \E day \in resp.history :
          \E k, j \in 1..Len(day.exercises) :
              day.exercises[k].name = "Unknown" /\ day.exercises[j].name = "Bench"

----------------------------------------------------------------------------
(* Updates of the LOG *)

\* the fields of a set an update is to leave alone
KeptFields == {"date", "ex_id", "name", "set_group", "note", "order"}

\* the step changes at most the weight, reps and rest cells of one row of
\* the LOG and neither adds nor removes a row
OnlyLoadOfOneRowChanges ==
    /\ Len(log_sheet') = Len(log_sheet)
    /\ \E i \in 1..Len(log_sheet) :
          /\ \A j \in (1..Len(log_sheet)) \ {i} : log_sheet'[j] = log_sheet[j]
          /\ \A f \in KeptFields : log_sheet'[i][f] = log_sheet[i][f]

\* C23: an update_workout_set call changes only the weight, reps and rest
\* of the single row it refers to: the other fields of that row and all
\* other rows stay as they were, and no row is added or removed
C23_UpdateFrame ==
    [][(resp'.op = "update" /\ log_sheet' # log_sheet) => OnlyLoadOfOneRowChanges]_vars

\* the same, for the updates of a stored row that carry no note and no order
C23_UpdateFrameOfStoredRow ==
    [][(/\ resp'.op = "update" /\ log_sheet' # log_sheet
        /\ resp'.row_number <= AllValuesLen(log_sheet)
        /\ log_sheet'[1].note = log_sheet[1].note) => OnlyLoadOfOneRowChanges]_vars

\* the fields that say which set a row holds
SetIdentity(row) == [date |-> row.date, ex_id |-> row.ex_id, name |-> row.name, set_group |-> row.set_group]

\* the step is a save_workout_set call answered with success
SavedStep == resp'.op = "save" /\ resp'.success /\ left' = left - 1 /\ now' = now

\* the step is an update_workout_set call by row number
UpdatedByRowStep == resp'.op = "update" /\ resp'.row_number > 1 /\ left' = left - 1 /\ now' = now

\* C24: the row_number a successful save_workout_set returns is the sheet
\* row of the set it appended; no later call moves or replaces a stored
\* set, and update_workout_set with a row number writes that sheet row and
\* no other, so the number keeps identifying the set
C24_RowNumberIdentifiesSet ==
    [][/\ SavedStep =>
            /\ Len(log_sheet') = Len(log_sheet) + 1
            /\ resp'.row_number = AllValuesLen(log_sheet')
            /\ log_sheet'[resp'.row_number - 1].date = DateText(today)
            /\ log_sheet'[resp'.row_number - 1].ex_id = "e1"
       /\ Len(log_sheet') >= Len(log_sheet)
       /\ \A i \in 1..Len(log_sheet) : SetIdentity(log_sheet'[i]) = SetIdentity(log_sheet[i])
       /\ UpdatedByRowStep =>
            \A j \in (1..Len(log_sheet')) \ {resp'.row_number - 1} :
                j <= Len(log_sheet) /\ log_sheet'[j] = log_sheet[j]]_vars

\* C24 reached: two sets were saved into an empty LOG at rows 2 and 3, and
\* an update by row number 2 then rewrote the first of them only
C24_Witness ==
    /\ resp.op = "update" /\ resp.success /\ resp.row_number = 2
    /\ Len(log_sheet) = 2
    /\ log_sheet[1].date = DateText(StartDay) /\ log_sheet[2].date = DateText(StartDay)
    /\ log_sheet[1].total_weight = Str(1300)
    /\ log_sheet[2].total_weight # Str(1300)

----------------------------------------------------------------------------
(* Load normalization *)

\* the load of a Barbell or Plate_Loaded exercise is the input weight
\* times the exercise's multiplier plus its base weight
LoadIsInputTimesMultiplierPlusBase ==
    (/\ resp.op = "effective_load"
     /\ resp.ref.type \in {"Barbell", "Plate_Loaded"}
     /\ resp.input_weight.k = "str")
    => resp.load = Str(resp.input_weight.v * resp.ref.multiplier + resp.ref.base_wt)

\* C25: for an exercise of weight type Barbell or Plate_Loaded the
\* normalized load is inputWeight x multiplier + baseWeight, for every
\* multiplier in {1, 2} and every base weight
C25_BarbellLoad == LoadIsInputTimesMultiplierPlusBase

\* the same, for the exercises whose multiplier is 2
C25_BarbellLoadDoubled ==
    (resp.op = "effective_load" /\ resp.ref.multiplier = 2) => LoadIsInputTimesMultiplierPlusBase

\* the scenario of the barbell squat: base 20 kg, multiplier 2, input 60 kg,
\* load 140 kg
C25_Squat ==
    /\ resp.op = "effective_load"
    /\ resp.ref = RefRow("Barbell", 200, 2)
    /\ resp.input_weight = Str(600)
    /\ resp.load = Str(1400)

----------------------------------------------------------------------------
(* The time box of the LOG cache *)

\* the step is a call of _get_log_values_cached
CachedReadStep == resp'.op = "log_values" /\ left' = left - 1 /\ now' = now

\* the cache was read from the store less than 300 seconds before the call
ReadWithinTtl == _log_cache.set /\ _log_cache_timestamp # NoTime /\ now - _log_cache_timestamp < 300

\* the most recent rows of the store, at most max_rows of them
MostRecentRows(n) == [k \in 1..n |-> log_sheet[Len(log_sheet) - n + k]]
RecentRows(max_rows) == MostRecentRows(IF Len(log_sheet) < max_rows THEN Len(log_sheet) ELSE max_rows)

\* a call that finds no cache read within 300 seconds and whose store read
\* succeeds returns the store's current rows, at most max_rows of them
ExpiredReadsStore ==
    (~ReadWithinTtl /\ resp'.faults = {})
    => /\ resp'.source = "store"
       /\ resp'.values = RecentRows(resp'.max_rows)
       /\ Len(resp'.values) <= resp'.max_rows
       /\ _log_cache_timestamp' = now

\* C26 as stated: the call returns cached content only when it was read
\* from the store less than 300 seconds earlier, and 300 seconds or more
\* after the last read a successful store read returns the current header
\* and at most the 1000 most recent rows
C26_CachedOnlyWithinTtl ==
    [][CachedReadStep =>
          /\ resp'.source \in {"fresh_cache", "stale_cache"} => ReadWithinTtl
          /\ ExpiredReadsStore]_vars

\* C26: the call answers from the cache without reading the store exactly
\* when the cache was read less than 300 seconds earlier; otherwise it
\* reads the store, returns the store's rows when the read succeeds, and
\* returns older cached content only when that read fails
C26_TimeBoxedCache ==
    [][CachedReadStep =>
          /\ resp'.source = "fresh_cache" <=> ReadWithinTtl
          /\ resp'.source = "fresh_cache" => resp'.values = _log_cache.rows /\ resp'.attempts = 0
          /\ resp'.source = "stale_cache" => resp'.faults = {"log"} /\ resp'.values = _log_cache.rows
          /\ ExpiredReadsStore]_vars

\* C26 reached: a read 300 seconds after the cached one went to the store
\* and returned the 2 most recent of more rows, a set saved since included
C26_Witness ==
    /\ resp.op = "log_values" /\ resp.source = "store" /\ resp.max_rows = 2
    /\ now = 300 /\ _log_cache_timestamp = 300
    /\ Len(log_sheet) > 2
    /\ resp.values = SubSeq(log_sheet, Len(log_sheet) - 1, Len(log_sheet))
    /\ resp.values[2].date = DateText(StartDay)

----------------------------------------------------------------------------
(* The two ledgers under a confirmation that fails part-way *)

\* the baseline ledger holds a weight for an exercise
HoldsBaseline(rows, ex_id, weight) == \E j \in 1..Len(rows) : rows[j].exercise_id = ex_id /\ rows[j].baseline_weight = weight

\* C27: a CONFIRM request that is answered success=False has modified
\* neither ledger, and after the request the proposal it names has status
\* CONFIRM only if the baseline ledger holds its new baseline for its
\* exercise, also when the store rejects a write part-way
C27_ConfirmAllOrNothing ==
    [][(resp'.op = "confirm" /\ resp'.action = "CONFIRM" /\ left' = left - 1) =>
          /\ ~resp'.success => /\ baseline_sheet'.rows = baseline_sheet.rows
                               /\ proposals_sheet'.rows = proposals_sheet.rows
          /\ \A i \in 1..Len(proposals_sheet'.rows) :
                (/\ proposals_sheet'.rows[i].proposal_id = resp'.id
                 /\ proposals_sheet'.rows[i].status = "CONFIRM")
                => HoldsBaseline(baseline_sheet'.rows, proposals_sheet'.rows[i].exercise_id, proposals_sheet'.rows[i].new_baseline)]_vars

----------------------------------------------------------------------------
(* The cache after an update that fails part-way *)

\* C28: an update_workout_set call that wrote a cell of the LOG and then
\* failed leaves the cache invalidated, so a cache still within its 300
\* seconds never differs from the rows of the store
C28_PartialUpdateInvalidatesCache ==
    [][/\ (resp'.op = "update" /\ ~resp'.success /\ log_sheet' # log_sheet)
          => ~_log_cache'.set /\ _log_cache_timestamp' = NoTime
       /\ (_log_cache'.set /\ now' - _log_cache_timestamp' < 300)
          => _log_cache'.rows = log_sheet']_vars

----------------------------------------------------------------------------
(* The update by search *)

\* the step is an update_workout_set call that went to the search
SearchStep == resp'.op = "update" /\ resp'.row_number <= 1 /\ left' = left - 1 /\ now' = now

\* the request lacks a set group, an exercise id or an order
LacksKey(data) == data.set_group_id = "" \/ data.exercise_id = "" \/ data.order.k \in {"none", "blank"} \/ data.order = Num(0)

\* the data rows whose exercise id, set group and order are the request's
Matching(data) == {i \in 1..Len(log_sheet) : log_sheet[i].ex_id = data.exercise_id /\ log_sheet[i].set_group = data.set_group_id /\ log_sheet[i].order = Str(data.order.v)}

\* C30: the update by search reads the LOG at most 3 times; it answers
\* True only after writing to one row, the first data row whose exercise
\* id, set group and order are the request's, and False when no row
\* matches, when every attempt fails, or when a key is missing
C30_SearchUpdatesFirstMatch ==
    [][SearchStep =>
          \A data \in {resp'.data} :
              /\ resp'.attempts <= 3
              /\ resp'.success =>
                    /\ ~LacksKey(data) /\ Matching(data) # {}
                    /\ Len(log_sheet') = Len(log_sheet)
                    /\ \A m \in {SetMin(Matching(data))} :
                          /\ \A j \in (1..Len(log_sheet)) \ {m} : log_sheet'[j] = log_sheet[j]
                          /\ log_sheet'[m].total_weight = Str(data.weight.v)
                          /\ log_sheet'[m].reps = Str(data.reps.v)
                          /\ log_sheet'[m].rest = Str(data.rest.v)
              /\ LacksKey(data) => ~resp'.success /\ resp'.attempts = 0 /\ log_sheet' = log_sheet
              /\ (~LacksKey(data) /\ Matching(data) = {}) =>
                    ~resp'.success /\ resp'.attempts = 3 /\ log_sheet' = log_sheet
              /\ ~resp'.success => LacksKey(data) \/ resp'.attempts = 3]_vars

\* C30 reached: of four rows matching the request the search rewrote the
\* first, on its second read of the LOG
C30_Witness ==
    /\ resp.op = "update" /\ resp.row_number = 0 /\ resp.success /\ resp.attempts = 2
    /\ Len(log_sheet) >= 4
    /\ log_sheet[1].total_weight = Str(1300)
    /\ \A i \in 2..4 : log_sheet[i].order = Str(1) /\ log_sheet[i].total_weight = Str(1200)

----------------------------------------------------------------------------
(* Max gap and mode as the LOG grows *)

\* what get_analytics_v4 answers before and after the step
AnswerBefore == get_analytics_v4(log_sheet, 14, today, baseline_sheet, proposals_sheet, {}).response
AnswerAfter == get_analytics_v4(log_sheet', 14, StartDay + (now' \div SecondsPerDay), baseline_sheet', proposals_sheet', {}).response

====
